---- MODULE Spec2Model ----
(***************************************************************************)
(* A model of tval's validation orchestration: the foreign-key load order  *)
(* (builder.py), the per-table check engine (checker.py), the relation     *)
(* engine (relation.py) and the cascade of skips in the run (main.py).     *)
(*                                                                         *)
(* A table definition keeps the fields the orchestration reads: its name   *)
(* and the ordered list of the tables its foreign keys reference.          *)
(***************************************************************************)
EXTENDS Integers, Sequences, FiniteSets, TLC

\* ------------------------------------------------------------------ bounds
MaxFks == 1          \* foreign keys declared by one table definition
MaxColumns == 2      \* columns of the table handed to run_checks
MaxTableChecks == 2  \* checks (of all families together) one table declares
MaxLoadErrors == 1   \* load errors recorded for one table
MaxRelations == 1    \* relations handed to run_relation_checks

VARIABLES
    table_defs,     \* build_load_order's argument: a list of table definitions
    order_result,   \* what build_load_order did: returned an order, or raised
    tdef,           \* run_checks' argument: the table whose checks run
    load_errors,    \* run_checks' argument: the table's load errors
    checks_run,     \* what run_checks returned and what it executed
    relations,            \* run_relation_checks' argument: the relations
    all_load_errors,      \* its argument: table name -> load errors
    check_failed_tables,  \* its argument: the tables with a failed check
    relation_run,         \* what run_relation_checks did
    pc,             \* main.run: the step the run has reached
    export,         \* main.run's argument: whether export is requested
    database,       \* the working database file and what was done to it
    table_reports,  \* the TableReport list _build_table_reports has built
    executed,       \* the statements sent to the read-only connection
    call,           \* a function called on its own: its name and arguments
    returned        \* what that call did: returned a value, or raised

order_vars == <<table_defs, order_result>>
check_vars == <<tdef, load_errors, checks_run>>
relation_vars == <<relations, all_load_errors, check_failed_tables, relation_run>>
run_vars == <<pc, export, database, table_reports, executed>>
call_vars == <<call, returned>>
vars == <<table_defs, order_result, tdef, load_errors, checks_run,
          relations, all_load_errors, check_failed_tables, relation_run,
          pc, export, database, table_reports, executed, call, returned>>

\* ------------------------------------------------------- builder.py: inputs
\* The table names a schema directory may use; a name that no definition of
\* the list carries is an undefined table.
Names == {"t1", "t2", "t3"}

\* A schema directory holds at most as many definitions as there are names;
\* two schema files may carry the same table name.
MaxTables == Cardinality(Names)

SeqsUpTo(S, n) == UNION {[1..k -> S] : k \in 0..n}

\* TableDef, reduced to table.name and the references.table of each
\* table_constraints.foreign_keys entry, in declaration order.
TableDef == [name : Names, fks : SeqsUpTo(Names, MaxFks)]

TableDefLists == UNION {[1..k -> TableDef] : k \in 1..MaxTables}

NoTable == "none"

Pending == [status |-> "pending", order |-> <<>>, dependent |-> NoTable,
            target |-> NoTable, cycle |-> <<>>]

\* ---------------------------------------------- builder.py: build_load_order
DefinedNames(tds) == {tds[i].name : i \in DOMAIN tds}

MaxOf(S) == CHOOSE x \in S : \A y \in S : y <= x

\* name_to_def[tdef.table.name] = tdef, for tdef in table_defs: a later
\* definition of the same name replaces an earlier one.
name_to_def(tds) ==
    [n \in DefinedNames(tds) |->
        tds[MaxOf({i \in DOMAIN tds : tds[i].name = n})]]

\* The (table index, fk index) pairs whose reference is not in name_to_def.
MissingRefs(tds) ==
    {p \in {<<i, j>> : i \in DOMAIN tds, j \in 1..MaxFks} :
        /\ p[2] \in DOMAIN tds[p[1]].fks
        /\ tds[p[1]].fks[p[2]] \notin DefinedNames(tds)}

\* The loops visit the tables in list order and each table's foreign keys in
\* declaration order: the first missing reference met raises.
FirstMissingRef(tds) ==
    CHOOSE p \in MissingRefs(tds) :
        \A q \in MissingRefs(tds) :
            \/ p[1] < q[1]
            \/ (p[1] = q[1] /\ p[2] <= q[2])

\* A plausible slip: a table's reference to itself is left out of the graph.
graph_without_self_edges(tds) ==
    [n \in DefinedNames(tds) |->
        {tds[i].fks[j] : <<i, j>> \in
            {p \in {<<i, j>> : i \in DOMAIN tds, j \in 1..MaxFks} :
                /\ tds[p[1]].name = n
                /\ p[2] \in DOMAIN tds[p[1]].fks}} \ {n}]

\* graph[tdef.table.name].add(ref_table): node -> set of referenced tables.
graph(tds) ==
    [n \in DefinedNames(tds) |->
        {tds[i].fks[j] : <<i, j>> \in
            {p \in {<<i, j>> : i \in DOMAIN tds, j \in 1..MaxFks} :
                /\ tds[p[1]].name = n
                /\ p[2] \in DOMAIN tds[p[1]].fks}}]

\* TopologicalSorter.get_ready/done: the nodes not yet passed out whose
\* predecessors have all been marked done.
ReadyNodes(g, done) == {n \in DOMAIN g \ done : g[n] \subseteq done}

RECURSIVE Generations(_, _)
\* The successive groups static_order yields, as a sequence of sets.
Generations(g, done) ==
    IF ReadyNodes(g, done) = {} THEN <<>>
    ELSE <<ReadyNodes(g, done)>> \o Generations(g, done \cup ReadyNodes(g, done))

\* The generation in which static_order yields node n.
GenerationOf(g, n) ==
    CHOOSE k \in 1..Len(Generations(g, {})) : n \in Generations(g, {})[k]

\* TopologicalSorter._find_cycle: the lists [n1, ..., nk, n1] it can report;
\* each node is an immediate predecessor of the next one in the list.  The
\* cycle found depends on the iteration order of the predecessor sets, which
\* string hashing leaves open: any simple cycle can be the one reported.
CycleLists(g) ==
    {c \in UNION {[1..k -> DOMAIN g] : k \in 2..(Cardinality(DOMAIN g) + 1)} :
        /\ c[1] = c[Len(c)]
        /\ \A i, j \in 1..(Len(c) - 1) : i # j => c[i] # c[j]
        /\ \A i \in 1..(Len(c) - 1) : c[i] \in g[c[i + 1]]}

\* list(sorter.static_order()) for an acyclic graph: generation after
\* generation; the order inside one generation follows dict/set iteration
\* order, so every arrangement of a generation is a possible outcome.
static_order(g) ==
    {s \in [1..Cardinality(DOMAIN g) -> DOMAIN g] :
        /\ \A i, j \in DOMAIN s : i # j => s[i] # s[j]
        /\ \A i, j \in DOMAIN s :
            i < j => GenerationOf(g, s[i]) <= GenerationOf(g, s[j])}

\* A plausible slip: the message interpolates the two names the other way
\* round.
missing_reference_swapped(tds) ==
    [Pending EXCEPT !.status = "missing_reference",
        !.dependent = tds[FirstMissingRef(tds)[1]].fks[FirstMissingRef(tds)[2]],
        !.target = tds[FirstMissingRef(tds)[1]].name]

\* raise ValueError(f"...: {tdef.table.name} -> {ref_table}")
missing_reference(tds) ==
    [Pending EXCEPT !.status = "missing_reference",
        !.dependent = tds[FirstMissingRef(tds)[1]].name,
        !.target = tds[FirstMissingRef(tds)[1]].fks[FirstMissingRef(tds)[2]]]

\* A plausible slip: the graph is sorted before the references are looked
\* up, so a cycle is reported ahead of an undefined target.
build_load_order_cycle_first(tds) ==
    IF CycleLists(graph(tds)) # {}
    THEN {[Pending EXCEPT !.status = "circular_dependency", !.cycle = c] :
              c \in CycleLists(graph(tds))}
    ELSE IF MissingRefs(tds) # {}
    THEN {missing_reference(tds)}
    ELSE {[Pending EXCEPT !.status = "ok",
              !.order = [k \in DOMAIN s |-> name_to_def(tds)[s[k]]]] :
              s \in static_order(graph(tds))}

\* The outcomes of build_load_order(table_defs).
build_load_order(tds) ==
    IF MissingRefs(tds) # {}
    THEN {missing_reference(tds)}
    ELSE IF CycleLists(graph(tds)) # {}
    THEN {[Pending EXCEPT !.status = "circular_dependency", !.cycle = c] :
              c \in CycleLists(graph(tds))}
    ELSE {[Pending EXCEPT !.status = "ok",
              !.order = [k \in DOMAIN s |-> name_to_def(tds)[s[k]]]] :
              s \in static_order(graph(tds))}

\* ------------------------------------------------------ specification: order
\* The variables of the other parts of the model, at rest.
OrderIdle == table_defs = <<>> /\ order_result = Pending
CheckIdle == tdef = <<>> /\ load_errors = <<>> /\ checks_run = <<>>
RelationIdle ==
    /\ relations = <<>>
    /\ all_load_errors = <<>>
    /\ check_failed_tables = {}
    /\ relation_run = <<>>
RunIdle ==
    /\ pc = "idle"
    /\ export = FALSE
    /\ database = <<>>
    /\ table_reports = <<>>
    /\ executed = <<>>
CallIdle == call = <<>> /\ returned = <<>>

InitOrder ==
    /\ CallIdle
    /\ table_defs \in TableDefLists
    /\ order_result = Pending
    /\ CheckIdle
    /\ RelationIdle
    /\ RunIdle

BuildLoadOrder ==
    /\ order_result.status = "pending"
    /\ order_result' \in build_load_order(table_defs)
    /\ UNCHANGED <<call_vars, table_defs, check_vars, relation_vars, run_vars>>

NextOrder == BuildLoadOrder

SpecOrder == InitOrder /\ [][NextOrder]_vars

\* ----------------------------------------------- properties of the load order
\* The foreign keys of the input list, read off the list itself:
\* <<A, B>> when a definition named A has a foreign key referencing B.
FkPairs ==
    {<<table_defs[i].name, table_defs[i].fks[j]>> : <<i, j>> \in
        {p \in (DOMAIN table_defs) \X (1..MaxFks) :
            p[2] \in DOMAIN table_defs[p[1]].fks}}

InputNames == {table_defs[i].name : i \in DOMAIN table_defs}

AllFkTargetsDefined == \A e \in FkPairs : e[2] \in InputNames

\* A chain of foreign keys leads from table a to table b.
FkPath(a, b) ==
    \E k \in 2..(Cardinality(Names) + 1) : \E p \in [1..k -> Names] :
        /\ p[1] = a
        /\ p[k] = b
        /\ \A i \in 1..(k - 1) : <<p[i], p[i + 1]>> \in FkPairs

OnFkCycle(n) == FkPath(n, n)

HasFkCycle == \E n \in Names : OnFkCycle(n)

Returned == order_result.status = "ok"

Finished == order_result.status # "pending"

\* The positions of the output list that hold a table named n.
PositionsOf(n) ==
    {k \in DOMAIN order_result.order : order_result.order[k].name = n}

ReferencedTablesFirst ==
    \A e \in FkPairs :
        /\ PositionsOf(e[1]) # {}
        /\ PositionsOf(e[2]) # {}
        /\ \A ka \in PositionsOf(e[1]), kb \in PositionsOf(e[2]) : kb < ka

Occurrences(seq, d) == Cardinality({k \in DOMAIN seq : seq[k] = d})

\* The output list is a rearrangement of the input list.
EveryInputTableOnce ==
    /\ Len(order_result.order) = Len(table_defs)
    /\ \A d \in TableDef :
        Occurrences(order_result.order, d) = Occurrences(table_defs, d)

\* C1: for an acyclic foreign-key graph whose targets are all defined,
\* build_load_order returns an order that puts every referenced table before
\* every table referencing it and that holds every input table exactly once.
C1_LoadOrder ==
    (Finished /\ ~HasFkCycle /\ AllFkTargetsDefined) =>
        (Returned /\ ReferencedTablesFirst /\ EveryInputTableOnce)

\* C2: for a foreign-key graph with a directed cycle (all targets defined),
\* build_load_order never returns an order: it fails with a circular-dependency
\* error whose list is not empty and names only tables that lie on a cycle.
C2_CycleRejected ==
    (Finished /\ HasFkCycle /\ AllFkTargetsDefined) =>
        /\ order_result.status = "circular_dependency"
        /\ order_result.order = <<>>
        /\ order_result.cycle # <<>>
        /\ \A k \in DOMAIN order_result.cycle : OnFkCycle(order_result.cycle[k])

\* A cycle through three tables has been reported.
C2_Witness ==
    /\ HasFkCycle
    /\ AllFkTargetsDefined
    /\ order_result.status = "circular_dependency"
    /\ Len(order_result.cycle) = 4

\* C3: when some foreign key references a table that is not in the input list,
\* build_load_order returns no order: it fails with a missing-reference error
\* naming a dependent table and a target that this table references and that
\* is not defined, whether or not the graph also has a cycle.
C3_MissingReference ==
    (Finished /\ ~AllFkTargetsDefined) =>
        /\ order_result.status = "missing_reference"
        /\ order_result.order = <<>>
        /\ <<order_result.dependent, order_result.target>> \in FkPairs
        /\ order_result.target \notin InputNames

\* A missing reference has been reported for a list that also has a cycle.
C3_Witness ==
    /\ ~AllFkTargetsDefined
    /\ HasFkCycle
    /\ order_result.status = "missing_reference"

\* =========================================================================
\* checker.py: the per-table check engine
\* =========================================================================
\* status.py: CheckStatus
CheckStatus == {"OK", "NG", "SKIPPED", "ERROR"}

\* Optional values (int | None, float | None): <<>> is None, <<v>> a value.
None == <<>>
Some(v) == <<v>>

\* ColumnDef, reduced to what the check builders read.  allowed_values is a
\* list (empty by default); min and max are None or a number, and a declared
\* bound may be 0.
ColumnDef ==
    [allowed_values : {<<>>, <<"a">>}, min : {None, Some(0)}, max : {None, Some(1)}]

\* CheckDef as the schema declares it: the description and the query text are
\* the author's; position k of a family stands for its k-th distinct text.
UserCheck(family, k, expect_zero) ==
    [description |-> <<family, k>>,
     query |-> [text |-> <<family, k>>, table |-> "{table}"],
     expect_zero |-> expect_zero]

\* The table handed to run_checks.  Its name and its column names have passed
\* quote_identifier when create_tables ran, before any check.
CheckTableName == "t"

Count(seq, Test(_)) == Cardinality({i \in DOMAIN seq : Test(seq[i])})

\* The number of checks a table definition declares.
DeclaredChecks(td) ==
    Count(td.columns, LAMBDA c : c.allowed_values # <<>>)
    + Count(td.columns, LAMBDA c : c.min # None \/ c.max # None)
    + Len(td.row_conditions) + Len(td.checks) + Len(td.aggregation_checks)

CheckTables ==
    {td \in [name : {CheckTableName},
             columns : UNION {[1..k -> ColumnDef] : k \in 1..MaxColumns},
             row_conditions : {[i \in 1..k |-> <<"row_condition", i>>] :
                                  k \in 0..MaxTableChecks},
             checks : UNION {{[i \in 1..k |-> UserCheck("check", i, ez[i])] :
                                  ez \in [1..k -> BOOLEAN]} : k \in 0..MaxTableChecks},
             aggregation_checks :
                 UNION {{[i \in 1..k |-> UserCheck("aggregation_check", i, ez[i])] :
                                  ez \in [1..k -> BOOLEAN]} : k \in 0..MaxTableChecks}] :
        DeclaredChecks(td) <= MaxTableChecks}

\* loader.py: the error_type tags a LoadError can carry.
LoadErrorKinds ==
    {"TYPE_MISMATCH", "NOT_NULL", "COLUMN_MISMATCH", "FK_VIOLATION",
     "UNIQUE_VIOLATION", "UNKNOWN", "NO_FILES", "UNSUPPORTED_FORMAT",
     "ENCODING_DETECTION_FAILED"}

LoadErrorLists == SeqsUpTo(LoadErrorKinds, MaxLoadErrors)

\* What conn.execute(query).fetchone() can do: raise with a diagnostic, give no
\* row, or give a row whose first field is a number.  The number is kept as
\* twice its value, so that 1 stands for 0.5.
Diagnostics == {"Parser Error", "Binder Error"}

QueryOutcomes ==
    [kind : {"raises"}, diagnostic : Diagnostics, twice : {0}]
    \cup [kind : {"no_row"}, diagnostic : {""}, twice : {0}]
    \cup [kind : {"row"}, diagnostic : {""}, twice : {-2, 0, 1, 2, 4}]

IsIntegerRow(outcome) == outcome.kind = "row" /\ outcome.twice % 2 = 0

\* int(result[0]): truncation toward zero.
py_int(twice) == IF twice >= 0 THEN twice \div 2 ELSE -((-twice) \div 2)

\* query.replace("{table}", quote_identifier(table_name)): a query text
\* without the placeholder is left as it is.
resolve_query(query, table_name) ==
    IF query.table = "{table}" THEN [query EXCEPT !.table = table_name] ELSE query

\* A plausible slip: the reason of the skip is not kept.
make_skipped_result_without_message(check, table_name, message) ==
    [description |-> check.description,
     query |-> resolve_query(check.query, table_name),
     status |-> "SKIPPED",
     result_count |-> None,
     message |-> <<>>]

make_skipped_result(check, table_name, message) ==
    [description |-> check.description,
     query |-> resolve_query(check.query, table_name),
     status |-> "SKIPPED",
     result_count |-> None,
     message |-> message]

_build_allowed_values_check(table_name, col, i) ==
    [description |-> <<"allowed values check", i>>,
     query |-> [text |-> <<"allowed values check", i>>, table |-> "{table}"],
     expect_zero |-> TRUE]

\* A plausible slip: a value exactly at a bound counted as outside it.
_build_range_check_exclusive(table_name, col, i) ==
    [description |-> <<"range check", i, col.min, col.max>>,
     query |-> [text |-> <<"range check", i, col.min # None, col.max # None>>,
                table |-> "{table}"],
     expect_zero |-> TRUE,
     conditions |-> (IF col.min # None THEN <<"<=">> ELSE <<>>)
                    \o (IF col.max # None THEN <<">=">> ELSE <<>>),
     params |-> col.min \o col.max]

\* conditions holds the operators of the comparisons joined by OR, in the
\* order the code appends them, and params the bound of each.
_build_range_check(table_name, col, i) ==
    [description |-> <<"range check", i, col.min, col.max>>,
     query |-> [text |-> <<"range check", i, col.min # None, col.max # None>>,
                table |-> "{table}"],
     expect_zero |-> TRUE,
     conditions |-> (IF col.min # None THEN <<"<">> ELSE <<>>)
                    \o (IF col.max # None THEN <<">">> ELSE <<>>),
     params |-> col.min \o col.max]

_build_row_condition_check(condition) ==
    [description |-> condition,
     query |-> [text |-> condition, table |-> "{table}"],
     expect_zero |-> TRUE]

\* A plausible slip: expect_zero false passes with count >= 0.
count_status_zero_passes(expect_zero, count) ==
    IF expect_zero
    THEN (IF count = 0 THEN "OK" ELSE "NG")
    ELSE (IF count >= 0 THEN "OK" ELSE "NG")

\* status = OK/NG from the count and the polarity of the check.
count_status(expect_zero, count) ==
    IF expect_zero
    THEN (IF count = 0 THEN "OK" ELSE "NG")
    ELSE (IF count > 0 THEN "OK" ELSE "NG")

\* count = int(result[0]) if result else 0
result_count(outcome) == IF outcome.kind = "no_row" THEN 0 ELSE py_int(outcome.twice)

\* A plausible slip: a check that could not be evaluated is reported as a
\* check that found violations.
error_result_as_ng(check, query, outcome) ==
    [description |-> check.description,
     query |-> query,
     status |-> "NG",
     result_count |-> None,
     message |-> <<outcome.diagnostic>>]

\* The except branch of _execute_check.
error_result(check, query, outcome) ==
    [description |-> check.description,
     query |-> query,
     status |-> "ERROR",
     result_count |-> None,
     message |-> <<outcome.diagnostic>>]

\* _execute_check(conn, check, table_name), conn answering `outcome`.
_execute_check(check, table_name, outcome) ==
    IF outcome.kind = "raises"
    THEN error_result(check, resolve_query(check.query, table_name), outcome)
    ELSE [description |-> check.description,
          query |-> resolve_query(check.query, table_name),
          status |-> count_status(check.expect_zero, result_count(outcome)),
          result_count |-> Some(result_count(outcome)),
          message |->
              IF count_status(check.expect_zero, result_count(outcome)) = "OK"
              THEN <<>>
              ELSE <<"Result count", result_count(outcome)>>]

Indices(seq) == [i \in DOMAIN seq |-> i]

MapSeq(seq, Op(_)) == [i \in DOMAIN seq |-> Op(seq[i])]

\* [_build_allowed_values_check(...) for col in tdef.columns if col.allowed_values]
allowed_values_checks(td) ==
    MapSeq(SelectSeq(Indices(td.columns),
                     LAMBDA i : td.columns[i].allowed_values # <<>>),
           LAMBDA i : _build_allowed_values_check(td.name, td.columns[i], i))

\* [_build_range_check(...) for col in tdef.columns
\*  if col.min is not None or col.max is not None]
range_checks(td) ==
    MapSeq(SelectSeq(Indices(td.columns),
                     LAMBDA i : td.columns[i].min # None \/ td.columns[i].max # None),
           LAMBDA i : _build_range_check(td.name, td.columns[i], i))

row_condition_checks(td) ==
    MapSeq(td.row_conditions, LAMBDA rc : _build_row_condition_check(rc))

\* The chain(...) of the load-error branch.
skipped_checks(td) ==
    allowed_values_checks(td) \o range_checks(td) \o row_condition_checks(td)
        \o td.checks

\* A plausible slip: the normal branch going column by column, so that the
\* range checks come before the allowed-values checks.
executed_checks_range_first(td) ==
    range_checks(td) \o allowed_values_checks(td) \o row_condition_checks(td)
        \o td.checks

\* The four list comprehensions of the normal branch, concatenated.
executed_checks(td) ==
    allowed_values_checks(td) \o range_checks(td) \o row_condition_checks(td)
        \o td.checks

\* The queries run_checks sends to the connection for a table without load
\* errors, in the order it sends them.
check_queries(td) ==
    MapSeq(executed_checks(td) \o td.aggregation_checks,
           LAMBDA c : resolve_query(c.query, td.name))

QuerySet(td) == {check_queries(td)[i] : i \in DOMAIN check_queries(td)}

\* A plausible slip: a single load error does not mark the table.
tainted_by_two(errors) == Len(errors) > 1

\* if load_errors:
tainted(errors) == errors # <<>>

\* run_checks(conn, tdef, load_errors), conn answering query q with db[q]:
\* the two lists it returns, and the queries it executed with their answers.
run_checks(td, errors, db) ==
    IF tainted(errors)
    THEN [check_results |->
              MapSeq(skipped_checks(td),
                     LAMBDA c : make_skipped_result(c, td.name,
                                    <<"Skipped due to load error">>)),
          agg_check_results |->
              MapSeq(td.aggregation_checks,
                     LAMBDA c : make_skipped_result(c, td.name,
                                    <<"Skipped due to load error">>)),
          executed |-> <<>>]
    ELSE [check_results |->
              MapSeq(executed_checks(td),
                     LAMBDA c : _execute_check(c, td.name,
                                    db[resolve_query(c.query, td.name)])),
          agg_check_results |->
              MapSeq(td.aggregation_checks,
                     LAMBDA c : _execute_check(c, td.name,
                                    db[resolve_query(c.query, td.name)])),
          executed |->
              MapSeq(check_queries(td), LAMBDA q : [query |-> q, outcome |-> db[q]])]

\* ----------------------------------------------------- specification: checks
NotRun == [state |-> "pending"]

InitChecks ==
    /\ CallIdle
    /\ tdef \in CheckTables
    /\ load_errors \in LoadErrorLists
    /\ checks_run = NotRun
    /\ OrderIdle
    /\ RelationIdle
    /\ RunIdle

\* The states of the read-only database, each fixing the answer to every
\* query of the table.  A table with load errors holds partial data; any one
\* database stands for it here, to keep the state space small.
Databases(td, errors) ==
    IF errors = <<>>
    THEN [QuerySet(td) -> QueryOutcomes]
    ELSE {[q \in QuerySet(td) |-> [kind |-> "row", diagnostic |-> "", twice |-> 2]]}

\* One call of run_checks.
RunChecks ==
    /\ checks_run = NotRun
    /\ \E db \in Databases(tdef, load_errors) :
        checks_run' = [state |-> "returned",
                       out |-> run_checks(tdef, load_errors, db)]
    /\ UNCHANGED <<call_vars, tdef, load_errors, order_vars, relation_vars, run_vars>>

NextChecks == RunChecks

SpecChecks == InitChecks /\ [][NextChecks]_vars

\* ------------------------------------------- properties of the check engine
ChecksReturned == checks_run # NotRun

\* Both lists run_checks returned, one after the other.
AllResults == checks_run.out.check_results \o checks_run.out.agg_check_results

Executed == checks_run.out.executed

\* The checks the schema of tdef declares, family by family.
DeclaredRowLevel ==
    Count(tdef.columns, LAMBDA c : c.allowed_values # <<>>)
    + Count(tdef.columns, LAMBDA c : c.min # None \/ c.max # None)
    + Len(tdef.row_conditions) + Len(tdef.checks)

DeclaredAggregation == Len(tdef.aggregation_checks)

UserChecks ==
    {tdef.checks[i] : i \in DOMAIN tdef.checks}
    \cup {tdef.aggregation_checks[i] : i \in DOMAIN tdef.aggregation_checks}

\* The polarity of the check a result belongs to: the author's for a
\* user-defined or aggregation check, expect-zero for a built-in one.
ExpectZeroOf(r) ==
    IF \E c \in UserChecks : c.description = r.description
    THEN (CHOOSE c \in UserChecks : c.description = r.description).expect_zero
    ELSE TRUE

\* The answers the connection gave to the query of result r.
AnswersTo(r) ==
    {Executed[k].outcome : k \in {j \in DOMAIN Executed : Executed[j].query = r.query}}

\* C4: for a table with load errors every declared check, of every family and
\* every aggregation check, gets a result that is SKIPPED with the load-error
\* message, and no query is executed.
C4_TaintedAllSkipped ==
    (ChecksReturned /\ load_errors # <<>>) =>
        /\ Len(checks_run.out.check_results) = DeclaredRowLevel
        /\ Len(checks_run.out.agg_check_results) = DeclaredAggregation
        /\ \A i \in DOMAIN AllResults :
            /\ AllResults[i].status = "SKIPPED"
            /\ AllResults[i].message = <<"Skipped due to load error">>
        /\ Executed = <<>>

\* A tainted table with a row-level check and an aggregation check has been
\* through run_checks.
C4_Witness ==
    /\ ChecksReturned
    /\ load_errors # <<>>
    /\ Len(checks_run.out.check_results) = 1
    /\ Len(checks_run.out.agg_check_results) = 1

\* C5: for a check executed on a table without load errors whose query gives
\* an integer count n: with expect_zero the status is OK iff n = 0 and NG
\* otherwise, without it OK iff n > 0 and NG otherwise; an NG message reports n.
C5_CountDecidesStatus ==
    (ChecksReturned /\ load_errors = <<>>) =>
        \A i \in DOMAIN AllResults : \A o \in AnswersTo(AllResults[i]) :
            IsIntegerRow(o) =>
                /\ AllResults[i].status \in {"OK", "NG"}
                /\ AllResults[i].status = "OK" <=>
                       IF ExpectZeroOf(AllResults[i])
                       THEN o.twice \div 2 = 0
                       ELSE o.twice \div 2 > 0
                /\ AllResults[i].status = "NG" =>
                       AllResults[i].message = <<"Result count", o.twice \div 2>>

\* A check with expect_zero false met a count of 0 and ended NG.
C5_Witness ==
    /\ ChecksReturned
    /\ load_errors = <<>>
    /\ \E i \in DOMAIN AllResults : \E o \in AnswersTo(AllResults[i]) :
        /\ IsIntegerRow(o)
        /\ o.twice = 0
        /\ ~ExpectZeroOf(AllResults[i])
        /\ AllResults[i].status = "NG"

\* C6: a check whose query raises ends ERROR with the raised diagnostic as a
\* non-empty message (never SKIPPED, OK or NG); run_checks still returns, and
\* every check of the table is executed and has a result.
C6_RaisingCheckIsError ==
    (ChecksReturned /\ load_errors = <<>>) =>
        /\ \A i \in DOMAIN AllResults : \A o \in AnswersTo(AllResults[i]) :
            o.kind = "raises" =>
                /\ AllResults[i].status = "ERROR"
                /\ AllResults[i].message = <<o.diagnostic>>
                /\ o.diagnostic # ""
        /\ checks_run.state = "returned"
        /\ Len(Executed) = DeclaredRowLevel + DeclaredAggregation
        /\ Len(AllResults) = DeclaredRowLevel + DeclaredAggregation
        /\ \A i \in DOMAIN AllResults : AnswersTo(AllResults[i]) # {}

\* The first check raised and the check after it was executed and ended OK.
C6_Witness ==
    /\ ChecksReturned
    /\ load_errors = <<>>
    /\ Len(AllResults) = 2
    /\ AllResults[1].status = "ERROR"
    /\ AllResults[2].status = "OK"
    /\ Executed[1].outcome.kind = "raises"

\* The descriptions of a list of results, in order.
Descriptions(results) == [k \in DOMAIN results |-> results[k].description]

\* The columns of td that declare allowed values, and those that declare a
\* bound, in column order.
ColumnsWithAllowedValues(td) ==
    SelectSeq(Indices(td.columns), LAMBDA i : td.columns[i].allowed_values # <<>>)

ColumnsWithRange(td) ==
    SelectSeq(Indices(td.columns),
              LAMBDA i : td.columns[i].min # None \/ td.columns[i].max # None)

\* The descriptions the schema alone fixes for the first list: the four
\* families in the claimed order, each in declaration order.
SchemaDescriptions(td) ==
    [k \in DOMAIN ColumnsWithAllowedValues(td) |->
        <<"allowed values check", ColumnsWithAllowedValues(td)[k]>>]
    \o [k \in DOMAIN ColumnsWithRange(td) |->
        <<"range check", ColumnsWithRange(td)[k],
          td.columns[ColumnsWithRange(td)[k]].min,
          td.columns[ColumnsWithRange(td)[k]].max>>]
    \o [k \in DOMAIN td.row_conditions |-> td.row_conditions[k]]
    \o [k \in DOMAIN td.checks |-> td.checks[k].description]

\* C22: run_checks returns its first list in the family order allowed-values
\* checks, range checks, row-condition checks, user-defined checks, each
\* family in declaration order (column order for the column checks), and
\* the aggregation checks as a second list in declaration order; the number
\* of results and their descriptions depend on the schema only, whether the
\* table is tainted or not.
C22_FamilyOrder ==
    ChecksReturned =>
        /\ Descriptions(checks_run.out.check_results) = SchemaDescriptions(tdef)
        /\ Descriptions(checks_run.out.agg_check_results)
              = [k \in DOMAIN tdef.aggregation_checks |->
                    tdef.aggregation_checks[k].description]

\* An executed run over a table whose first column declares a bound and
\* whose second column declares allowed values: the allowed-values check of
\* the second column comes before the range check of the first.
C22_Witness ==
    /\ ChecksReturned
    /\ load_errors = <<>>
    /\ Len(tdef.columns) = 2
    /\ tdef.columns[1].allowed_values = <<>>
    /\ tdef.columns[1].min # None
    /\ tdef.columns[2].allowed_values # <<>>
    /\ tdef.columns[2].min = None /\ tdef.columns[2].max = None
    /\ Len(checks_run.out.check_results) = 2
    /\ checks_run.out.check_results[1].status = "OK"
    /\ checks_run.out.check_results[1].description[1] = "allowed values check"
    /\ checks_run.out.check_results[2].description[1] = "range check"

\* The same table, tainted: the same two descriptions, SKIPPED.
C22_TaintedSameOrder ==
    /\ ChecksReturned
    /\ load_errors # <<>>
    /\ Len(tdef.columns) = 2
    /\ tdef.columns[1].allowed_values = <<>>
    /\ tdef.columns[2].allowed_values # <<>>
    /\ Len(checks_run.out.check_results) = 2
    /\ checks_run.out.check_results[1].status = "SKIPPED"
    /\ checks_run.out.check_results[1].description[1] = "allowed values check"
    /\ checks_run.out.check_results[2].description[1] = "range check"

\* =========================================================================
\* relation.py: the relation engine
\* =========================================================================
\* The tables relations are declared between, and the key column lists of an
\* endpoint; validate_relation_refs has found every table and column defined.
RelationTables == {"t1", "t2"}

KeyColumnLists == {<<"k1">>, <<"k1", "k2">>}

Cardinalities == {"1:1", "1:N", "N:1", "N:N"}

RelationEndpoint == [table : RelationTables, columns : KeyColumnLists]

\* RelationDef.  Neither load_relations nor validate_relation_refs compares
\* the lengths of the two column lists.  The "from" endpoint is t1 (the two
\* tables are interchangeable), on t2 or on t1 itself.
RelationDef ==
    {rel \in [name : {"r"}, cardinality : Cardinalities,
              from_ : RelationEndpoint, to : RelationEndpoint] :
        rel.from_.table = "t1"}

RelationLists == UNION {[1..k -> RelationDef] : k \in 1..MaxRelations}

\* The load-error dictionaries: a table may have no entry, an empty list or
\* a list of errors.
RelationLoadErrors ==
    UNION {[S -> {<<>>, <<"UNKNOWN">>}] : S \in SUBSET RelationTables}

\* all_load_errors.get(table, [])
errors_of(errors, table) == IF table \in DOMAIN errors THEN errors[table] ELSE <<>>

\* A generated query has no {table} placeholder.
relation_query(kind, source_table, source_cols, target_table, target_cols) ==
    [text |-> <<kind, source_table, source_cols, target_table, target_cols>>,
     table |-> ""]

_build_uniqueness_sql(table, cols) ==
    relation_query("uniqueness", table, cols, "", <<>>)

\* zip(source_cols, target_cols, strict=True) raises ValueError when the two
\* lists differ in length.
zip_strict_raises(source_cols, target_cols) == Len(source_cols) # Len(target_cols)

_build_referential_sql(source_table, source_cols, target_table, target_cols) ==
    relation_query("referential", source_table, source_cols, target_table,
                   target_cols)

uniqueness_check(label, endpoint) ==
    [description |-> <<label, endpoint.table, endpoint.columns>>,
     query |-> _build_uniqueness_sql(endpoint.table, endpoint.columns),
     raises |-> FALSE]

referential_check(source, target) ==
    [description |-> <<"referential integrity", source.table, target.table>>,
     query |-> _build_referential_sql(source.table, source.columns,
                                      target.table, target.columns),
     raises |-> zip_strict_raises(source.columns, target.columns)]

\* The (description, sql) pairs _build_relation_checks appends, in order;
\* `raises` marks a pair whose construction raises.
_relation_check_list(rel) ==
    IF rel.cardinality = "1:1"
    THEN <<uniqueness_check("uniqueness", rel.from_),
           uniqueness_check("uniqueness", rel.to),
           referential_check(rel.from_, rel.to),
           referential_check(rel.to, rel.from_)>>
    ELSE IF rel.cardinality = "1:N"
    THEN <<uniqueness_check("uniqueness (1-side)", rel.from_),
           referential_check(rel.to, rel.from_)>>
    ELSE IF rel.cardinality = "N:1"
    THEN <<uniqueness_check("uniqueness (1-side)", rel.to),
           referential_check(rel.from_, rel.to)>>
    ELSE <<referential_check(rel.from_, rel.to),
           referential_check(rel.to, rel.from_)>>

\* _build_relation_checks(rel) raises when building one of its pairs raises.
_build_relation_checks_raises(rel) ==
    \E i \in DOMAIN _relation_check_list(rel) : _relation_check_list(rel)[i].raises

_build_relation_checks(rel) ==
    MapSeq(_relation_check_list(rel),
           LAMBDA c : [description |-> c.description, query |-> c.query])

\* if from_errors or to_errors or from_check_failed or to_check_failed:
relation_skipped(rel, errors, failed) ==
    \/ errors_of(errors, rel.from_.table) # <<>>
    \/ errors_of(errors, rel.to.table) # <<>>
    \/ rel.from_.table \in failed
    \/ rel.to.table \in failed

\* skipped_tables, in the order the four tests append to it.
skipped_tables(rel, errors, failed) ==
    (IF errors_of(errors, rel.from_.table) # <<>>
     THEN <<[table |-> rel.from_.table, check_failed |-> FALSE]>> ELSE <<>>)
    \o (IF errors_of(errors, rel.to.table) # <<>>
        THEN <<[table |-> rel.to.table, check_failed |-> FALSE]>> ELSE <<>>)
    \o (IF rel.from_.table \in failed
        THEN <<[table |-> rel.from_.table, check_failed |-> TRUE]>> ELSE <<>>)
    \o (IF rel.to.table \in failed
        THEN <<[table |-> rel.to.table, check_failed |-> TRUE]>> ELSE <<>>)

\* The body of "for desc, query in check_pairs" of the normal branch.
relation_check_result(pair, outcome) ==
    IF outcome.kind = "raises"
    THEN [description |-> pair.description,
          query |-> pair.query,
          status |-> "ERROR",
          result_count |-> None,
          message |-> <<outcome.diagnostic>>]
    ELSE [description |-> pair.description,
          query |-> pair.query,
          status |-> IF result_count(outcome) = 0 THEN "OK" ELSE "NG",
          result_count |-> Some(result_count(outcome)),
          message |-> IF result_count(outcome) = 0 THEN <<>>
                      ELSE <<"Result count", result_count(outcome)>>]

\* The results one relation appends.
relation_results(rel, errors, failed, db) ==
    IF relation_skipped(rel, errors, failed)
    THEN MapSeq(_build_relation_checks(rel),
                LAMBDA c : make_skipped_result(
                    [description |-> c.description, query |-> c.query,
                     expect_zero |-> TRUE],
                    rel.name,
                    <<"Skipped due to errors in", skipped_tables(rel, errors, failed)>>))
    ELSE MapSeq(_build_relation_checks(rel),
                LAMBDA c : relation_check_result(c, db[c.query]))

\* The queries one relation sends to the connection, with their answers.
relation_executed(rel, errors, failed, db) ==
    IF relation_skipped(rel, errors, failed)
    THEN <<>>
    ELSE MapSeq(_build_relation_checks(rel),
                LAMBDA c : [query |-> c.query, outcome |-> db[c.query]])

RECURSIVE relation_loop(_, _, _, _, _)
\* for rel in relations: the loop from relation i on, `acc` being what the
\* relations before i appended and executed.  A relation whose checks cannot
\* be built raises out of the loop: nothing is returned.
relation_loop(rels, i, errors, failed, acc) ==
    IF i > Len(rels)
    THEN [acc EXCEPT !.state = "returned"]
    ELSE IF _build_relation_checks_raises(rels[i])
    THEN [acc EXCEPT !.state = "raised", !.results = <<>>, !.raised_at = i]
    ELSE relation_loop(rels, i + 1, errors, failed,
            [acc EXCEPT
                !.results = @ \o relation_results(rels[i], errors, failed, acc.db),
                !.executed = @ \o relation_executed(rels[i], errors, failed, acc.db)])

\* run_relation_checks(conn, relations, all_load_errors, check_failed_tables)
run_relation_checks(rels, errors, failed, db) ==
    relation_loop(rels, 1, errors, failed,
        [state |-> "running", results |-> <<>>, executed |-> <<>>,
         raised_at |-> 0, db |-> db])

\* What a generated COUNT(*) query can do: raise, or give one row holding a
\* count that is not negative.
RelationOutcomes ==
    {o \in QueryOutcomes :
        \/ (o.kind = "raises" /\ o.diagnostic = "Binder Error")
        \/ (o.kind = "row" /\ o.twice \in {0, 2})}

RECURSIVE FlattenQueries(_)
FlattenQueries(rels) ==
    IF rels = <<>> THEN {}
    ELSE {(_relation_check_list(Head(rels)))[i].query :
              i \in DOMAIN _relation_check_list(Head(rels))}
         \cup FlattenQueries(Tail(rels))

\* ---------------------------------------------------- specification: relations
InitRelations ==
    /\ CallIdle
    /\ relations \in RelationLists
    /\ all_load_errors \in RelationLoadErrors
    /\ check_failed_tables \in SUBSET RelationTables
    /\ relation_run = NotRun
    /\ OrderIdle
    /\ CheckIdle
    /\ RunIdle

\* The databases, told apart by their answers to the queries the call can
\* send: those of the relations that are not skipped and that the loop
\* reaches before it raises.
RelationDatabases(rels, errors, failed) ==
    [{q \in FlattenQueries(rels) :
         \E i \in DOMAIN rels :
             /\ ~relation_skipped(rels[i], errors, failed)
             /\ \A j \in 1..i : ~_build_relation_checks_raises(rels[j])
             /\ \E k \in DOMAIN _relation_check_list(rels[i]) :
                 _relation_check_list(rels[i])[k].query = q} -> RelationOutcomes]

RunRelationChecks ==
    /\ relation_run = NotRun
    /\ \E db \in RelationDatabases(relations, all_load_errors, check_failed_tables) :
        relation_run' =
            [state |-> "done",
             out |-> [run_relation_checks(relations, all_load_errors,
                                          check_failed_tables, db)
                          EXCEPT !.db = <<>>]]
    /\ UNCHANGED <<call_vars, relations, all_load_errors, check_failed_tables,
                   order_vars, check_vars, run_vars>>

NextRelations == RunRelationChecks

SpecRelations == InitRelations /\ [][NextRelations]_vars

\* ----------------------------------------- properties of the relation engine
RelationsDone == relation_run # NotRun

RelationResults == relation_run.out.results

\* The number of checks the cardinality of a relation calls for.
ExpectedChecks(rel) == IF rel.cardinality = "1:1" THEN 4 ELSE 2

RECURSIVE ExpectedBefore(_)
\* The number of checks the relations before relation i call for.
ExpectedBefore(i) ==
    IF i = 1 THEN 0 ELSE ExpectedBefore(i - 1) + ExpectedChecks(relations[i - 1])

ExpectedTotal == ExpectedBefore(Len(relations) + 1)

\* The results relation i contributed, when every relation contributed as
\* many results as its cardinality calls for.
ResultsOf(i) ==
    [k \in 1..ExpectedChecks(relations[i]) |-> RelationResults[ExpectedBefore(i) + k]]

HasLoadErrors(table) ==
    table \in DOMAIN all_load_errors /\ all_load_errors[table] # <<>>

\* The causes for skipping a relation that hold, per endpoint.
SkipCauses(rel) ==
    {[table |-> t, check_failed |-> FALSE] :
        t \in {u \in {rel.from_.table, rel.to.table} : HasLoadErrors(u)}}
    \cup {[table |-> t, check_failed |-> TRUE] :
        t \in {rel.from_.table, rel.to.table} \cap check_failed_tables}

RECURSIVE ExpectedExecuted(_)
\* The number of checks of the first n relations that no cause skips.
ExpectedExecuted(n) ==
    IF n = 0 THEN 0
    ELSE ExpectedExecuted(n - 1)
         + (IF SkipCauses(relations[n]) = {} THEN ExpectedChecks(relations[n]) ELSE 0)

SentQueries ==
    {relation_run.out.executed[k].query : k \in DOMAIN relation_run.out.executed}

\* The message names exactly the causes that hold.
NamesCauses(message, rel) ==
    /\ Len(message) = 2
    /\ message[1] = "Skipped due to errors in"
    /\ {message[2][k] : k \in DOMAIN message[2]} = SkipCauses(rel)

\* C7: the checks of a relation are all SKIPPED, none being executed, exactly
\* when an endpoint has load errors or is in the failed-check set, the skip
\* message naming every cause that holds; otherwise every check of the
\* relation is executed.
C7_RelationSkipRule ==
    RelationsDone =>
        /\ relation_run.out.state = "returned"
        /\ Len(RelationResults) = ExpectedTotal
        /\ \A i \in DOMAIN relations :
            IF SkipCauses(relations[i]) # {}
            THEN \A k \in DOMAIN ResultsOf(i) :
                    /\ ResultsOf(i)[k].status = "SKIPPED"
                    /\ NamesCauses(ResultsOf(i)[k].message, relations[i])
            ELSE \A k \in DOMAIN ResultsOf(i) :
                    /\ ResultsOf(i)[k].status \in {"OK", "NG", "ERROR"}
                    /\ ResultsOf(i)[k].query \in SentQueries
        /\ Len(relation_run.out.executed) = ExpectedExecuted(Len(relations))

\* Both column lists of every relation have the same length.
EqualArity ==
    \A i \in DOMAIN relations :
        Len(relations[i].from_.columns) = Len(relations[i].to.columns)

\* The skip rule, for relations whose two column lists have the same length.
C7_ForEqualArity == EqualArity => C7_RelationSkipRule

\* The queries the cardinality of a relation calls for, in the order named.
Uniqueness(e) == relation_query("uniqueness", e.table, e.columns, "", <<>>)

Referential(s, t) ==
    relation_query("referential", s.table, s.columns, t.table, t.columns)

ExpectedQueries(rel) ==
    IF rel.cardinality = "1:1"
    THEN <<Uniqueness(rel.from_), Uniqueness(rel.to),
           Referential(rel.from_, rel.to), Referential(rel.to, rel.from_)>>
    ELSE IF rel.cardinality = "1:N"
    THEN <<Uniqueness(rel.from_), Referential(rel.to, rel.from_)>>
    ELSE IF rel.cardinality = "N:1"
    THEN <<Uniqueness(rel.to), Referential(rel.from_, rel.to)>>
    ELSE <<Referential(rel.from_, rel.to), Referential(rel.to, rel.from_)>>

\* C8: a relation contributes, executed or skipped, exactly the checks of its
\* cardinality: 1:1 uniqueness(from), uniqueness(to), referential(from->to),
\* referential(to->from); 1:N uniqueness(from), referential(to->from); N:1
\* uniqueness(to), referential(from->to); N:N both referential checks.
C8_ChecksByCardinality ==
    RelationsDone =>
        /\ Len(RelationResults) = ExpectedTotal
        /\ \A i \in DOMAIN relations :
            /\ Len(ExpectedQueries(relations[i])) = ExpectedChecks(relations[i])
            /\ \A k \in DOMAIN ResultsOf(i) :
                ResultsOf(i)[k].query = ExpectedQueries(relations[i])[k]

\* The checks by cardinality, for relations whose two column lists have the
\* same length.
C8_ForEqualArity == EqualArity => C8_ChecksByCardinality

\* =========================================================================
\* builder.py: identifiers
\* =========================================================================
\* A string is the sequence of its characters.
Letters ==
    {"a", "b", "c", "d", "e", "f", "g", "h", "i", "j", "k", "l", "m",
     "n", "o", "p", "q", "r", "s", "t", "u", "v", "w", "x", "y", "z",
     "A", "B", "C", "D", "E", "F", "G", "H", "I", "J", "K", "L", "M",
     "N", "O", "P", "Q", "R", "S", "T", "U", "V", "W", "X", "Y", "Z"}

Digits == {"0", "1", "2", "3", "4", "5", "6", "7", "8", "9"}

\* A plausible slip: re.match in the place of re.fullmatch, so that a prefix
\* that matches is enough.
fullmatch_as_match(name) ==
    /\ name # <<>>
    /\ name[1] \in Letters \cup {"_"}

\* re.fullmatch(r"[A-Za-z_][A-Za-z0-9_]*", name)
fullmatch(name) ==
    /\ name # <<>>
    /\ name[1] \in Letters \cup {"_"}
    /\ \A i \in 2..Len(name) : name[i] \in Letters \cup Digits \cup {"_"}

\* validate_identifier(name): the name itself, or ValueError.
validate_identifier(name) ==
    IF fullmatch(name)
    THEN [raises |-> FALSE, value |-> name]
    ELSE [raises |-> TRUE, value |-> <<"Invalid identifier", name>>]

\* quote_identifier(name): f'"{validate_identifier(name)}"'
quote_identifier(name) ==
    IF validate_identifier(name).raises
    THEN validate_identifier(name)
    ELSE [raises |-> FALSE,
          value |-> <<"\"">> \o validate_identifier(name).value \o <<"\"">>]

\* =========================================================================
\* main.py: the run
\* =========================================================================
\* The tables of a run.  A table has one column, k1; its type decides which
\* statistics the profiler asks for.  A table either has a DATE column and
\* declares no check, or has an INTEGER column with an allowed-values check
\* and declares an aggregation check.
RunNames == {"t1", "t2"}

\* The names a schema file may give its table: no parser rule looks at the
\* spelling of a name, so a name may be no identifier.
RunTableNames == RunNames \cup {"2t"}

Spelling(name) ==
    IF name = "t1" THEN <<"t", "1">>
    ELSE IF name = "t2" THEN <<"t", "2">>
    ELSE <<"2", "t">>

\* parser.py: the base types the profiler treats as numeric and as temporal.
NUMERIC_TYPES == {"INTEGER"}

DATETIME_TYPES == {"DATE"}

RunColumn(type, allowed_values) ==
    [name |-> "k1", type |-> type, allowed_values |-> allowed_values,
     min |-> None, max |-> None]

RunTableDef ==
    {[name |-> n, fks |-> f, columns |-> <<RunColumn(ty, <<>>)>>,
      row_conditions |-> <<>>, checks |-> <<>>, aggregation_checks |-> <<>>] :
        n \in RunTableNames, f \in SeqsUpTo(RunNames, 1), ty \in {"DATE"}}
    \cup
    {[name |-> n, fks |-> f, columns |-> <<RunColumn("INTEGER", <<"a">>)>>,
      row_conditions |-> <<>>, checks |-> <<>>,
      aggregation_checks |-> <<UserCheck("aggregation_check", 1, FALSE)>>] :
        n \in RunTableNames, f \in SeqsUpTo(RunNames, 1)}

\* load_table_definitions: the schema files of a run, with distinct table
\* names here.
RunSchemas ==
    {tds \in UNION {[1..k -> RunTableDef] : k \in 1..Cardinality(RunNames)} :
        \A i, j \in DOMAIN tds : tds[i].name = tds[j].name => i = j}

\* The relations of a run: none, or one between t1 and t2.  Both tables and
\* the column k1 are defined, so validate_relation_refs accepts it; a column
\* list may name k1 twice.
RunRelationDef ==
    [name : {"r"}, cardinality : {"1:N"},
     from_ : [table : {"t1"}, columns : {<<"k1">>}],
     to : [table : {"t2"}, columns : {<<"k1">>, <<"k1", "k1">>}]]

RunRelationLists(tds) ==
    {<<>>} \cup {<<rel>> : rel \in
        {r \in RunRelationDef :
            {r.from_.table, r.to.table} \subseteq DefinedNames(tds)}}

\* load_files: the load errors of one table.
RunLoadErrorLists == {<<>>, <<"TYPE_MISMATCH">>}

\* ------------------------------------------------ profiler.py: profile_table
_is_numeric(col_type) == col_type \in NUMERIC_TYPES

_is_temporal(col_type) == col_type \in DATETIME_TYPES

row_count_sql(table_name) == [text |-> <<"row count">>, table |-> table_name]

common_sql(table_name, i) ==
    [text |-> <<"common statistics", i>>, table |-> table_name]

num_sql(table_name, i) ==
    [text |-> <<"numeric statistics", i>>, table |-> table_name]

temp_sql(table_name, i) ==
    [text |-> <<"temporal statistics", i>>, table |-> table_name]


\* The statements profile_table sends for column i, in order: the numeric or
\* temporal statistics follow the common ones when those gave a row.
column_statements(td, i, db) ==
    IF db[common_sql(td.name, i)].kind # "row"
    THEN <<common_sql(td.name, i)>>
    ELSE IF _is_numeric(td.columns[i].type)
    THEN <<common_sql(td.name, i), num_sql(td.name, i)>>
    ELSE IF _is_temporal(td.columns[i].type)
    THEN <<common_sql(td.name, i), temp_sql(td.name, i)>>
    ELSE <<common_sql(td.name, i)>>

\* The ColumnProfile of column i, as a list: empty when the common query
\* gives no row (continue), the except branch when a statement raises.
column_profile(td, i, db) ==
    LET sent == column_statements(td, i, db)
        last == db[sent[Len(sent)]]
    IN  IF db[common_sql(td.name, i)].kind = "no_row"
        THEN <<>>
        ELSE IF last.kind = "raises"
        THEN <<[column_name |-> td.columns[i].name,
                is_numeric |-> _is_numeric(td.columns[i].type),
                is_temporal |-> _is_temporal(td.columns[i].type),
                count |-> 0,
                error |-> Some(last.diagnostic)]>>
        ELSE <<[column_name |-> td.columns[i].name,
                is_numeric |-> _is_numeric(td.columns[i].type),
                is_temporal |-> _is_temporal(td.columns[i].type),
                count |-> py_int(db[common_sql(td.name, i)].twice),
                error |-> None]>>

RECURSIVE profile_columns(_, _, _)
\* for col in tdef.columns: the profiles appended and the statements sent
\* from column i on.
profile_columns(td, i, db) ==
    IF i > Len(td.columns)
    THEN [profiles |-> <<>>, executed |-> <<>>]
    ELSE [profiles |-> column_profile(td, i, db)
                           \o profile_columns(td, i + 1, db).profiles,
          executed |-> column_statements(td, i, db)
                           \o profile_columns(td, i + 1, db).executed]

\* A plausible slip: the guard on load errors is missing.
profile_table_without_guard(td, errors, db) ==
    IF db[row_count_sql(td.name)].kind = "no_row"
       \/ db[row_count_sql(td.name)].twice = 0
    THEN [profiles |-> <<>>, executed |-> <<row_count_sql(td.name)>>]
    ELSE [profiles |-> profile_columns(td, 1, db).profiles,
          executed |-> <<row_count_sql(td.name)>>
                           \o profile_columns(td, 1, db).executed]

\* profile_table(conn, tdef, load_errors): the profiles it returns and the
\* statements it sent.
profile_table(td, errors, db) ==
    IF errors # <<>>
    THEN [profiles |-> <<>>, executed |-> <<>>]
    ELSE IF db[row_count_sql(td.name)].kind = "no_row"
            \/ db[row_count_sql(td.name)].twice = 0
    THEN [profiles |-> <<>>, executed |-> <<row_count_sql(td.name)>>]
    ELSE [profiles |-> profile_columns(td, 1, db).profiles,
          executed |-> <<row_count_sql(td.name)>>
                           \o profile_columns(td, 1, db).executed]

\* ------------------------------------------------------------------ main.py
AnyFailed(results) ==
    \E i \in DOMAIN results : results[i].status \in {"NG", "ERROR"}

\* A plausible slip: a check that could not be evaluated does not count.
has_check_failure_ng_only(check_results, agg_check_results) ==
    \E i \in DOMAIN (check_results \o agg_check_results) :
        (check_results \o agg_check_results)[i].status = "NG"

\* any(cr.status in (NG, ERROR) for cr in chain(check_results, agg_check_results))
has_check_failure(check_results, agg_check_results) ==
    AnyFailed(check_results \o agg_check_results)

\* The statements of one stage for one table, as entries of the log.
Logged(stage, table_name, statements) ==
    [k \in DOMAIN statements |->
        [stage |-> stage, table |-> table_name, query |-> statements[k]]]

\* One iteration of the loop of _build_table_reports: the TableReport it
\* appends and the statements it sent.
build_table_report(td, errors, db) ==
    LET checks == run_checks(td, errors, db)
        profiled ==
            IF has_check_failure(checks.check_results, checks.agg_check_results)
            THEN [profiles |-> <<>>, executed |-> <<>>]
            ELSE profile_table(td, errors, db)
    IN  [report |-> [table_def |-> td,
                     load_errors |-> errors,
                     check_results |-> checks.check_results,
                     agg_check_results |-> checks.agg_check_results,
                     profiles |-> profiled.profiles,
                     export_result |-> None],
         executed |->
             Logged("check", td.name,
                    [k \in DOMAIN checks.executed |-> checks.executed[k].query])
             \o Logged("profile", td.name, profiled.executed)]

\* A plausible slip: the aggregation-check results are not looked at.
collect_check_failed_tables_row_level_only(reports) ==
    {reports[i].table_def.name : i \in
        {j \in DOMAIN reports : AnyFailed(reports[j].check_results)}}

\* check_failed_tables = {r.table_def.table.name for r in table_reports if any(...)}
collect_check_failed_tables(reports) ==
    {reports[i].table_def.name : i \in
        {j \in DOMAIN reports :
            AnyFailed(reports[j].check_results \o reports[j].agg_check_results)}}

\* A plausible slip: the aggregation-check results are not looked at.
overall_status_row_level_only(report) ==
    IF report.load_errors # <<>> THEN "NG"
    ELSE IF AnyFailed(report.check_results) THEN "NG"
    ELSE "OK"

\* A plausible slip: the load errors are not looked at.
overall_status_checks_only(report) ==
    IF AnyFailed(report.check_results) THEN "NG"
    ELSE IF AnyFailed(report.agg_check_results) THEN "NG"
    ELSE "OK"

\* reporter.py: TableReport.overall_status
overall_status(report) ==
    IF report.load_errors # <<>> THEN "NG"
    ELSE IF AnyFailed(report.check_results) THEN "NG"
    ELSE IF AnyFailed(report.agg_check_results) THEN "NG"
    ELSE "OK"

\* exporter.py: export_table(conn, tdef, output_base_dir), the COPY statement
\* answering `outcome`.
export_table(td, outcome) ==
    IF outcome.kind = "raises"
    THEN [table_name |-> td.name, status |-> "ERROR",
          message |-> <<outcome.diagnostic>>]
    ELSE [table_name |-> td.name, status |-> "OK", message |-> <<>>]

skipped_export(td) ==
    [table_name |-> td.name, status |-> "SKIPPED",
     message |-> <<"Skipped because tables with validation failures exist">>]


\* ---------------------------------------------------------- specification: run
ordered_defs == order_result.order

\* What a check of a run's table can answer: it raises, counts nothing, or
\* counts one row.
RunCheckOutcomes ==
    {o \in QueryOutcomes :
        \/ (o.kind = "raises" /\ o.diagnostic = "Binder Error")
        \/ (o.kind = "row" /\ o.twice \in {0, 2})}

\* SELECT COUNT(*) FROM a table that exists gives one row: the table is
\* empty or it is not.
RowCountOutcomes == {o \in QueryOutcomes : o.kind = "row" /\ o.twice \in {0, 2}}

\* A statistics statement, an aggregate without GROUP BY, raises or gives
\* one row.
StatisticsOutcomes ==
    {o \in QueryOutcomes :
        \/ (o.kind = "raises" /\ o.diagnostic = "Binder Error")
        \/ (o.kind = "row" /\ o.twice = 2)}

StatisticsStatements(td) ==
    {common_sql(td.name, i) : i \in DOMAIN td.columns}
    \cup {num_sql(td.name, i) :
              i \in {j \in DOMAIN td.columns : _is_numeric(td.columns[j].type)}}
    \cup {temp_sql(td.name, i) :
              i \in {j \in DOMAIN td.columns : _is_temporal(td.columns[j].type)}}

\* The states of the read-only database as one table's checks and profiling
\* can tell them apart.  No statement is sent for a table with load errors:
\* one database stands for all.
RunDatabases(td, errors) ==
    IF errors = <<>>
    THEN {c @@ r @@ st :
             c \in [QuerySet(td) -> RunCheckOutcomes],
             r \in [{row_count_sql(td.name)} -> RowCountOutcomes],
             st \in [StatisticsStatements(td) -> StatisticsOutcomes]}
    ELSE {[q \in QuerySet(td) \cup {row_count_sql(td.name)}
                  \cup StatisticsStatements(td) |->
              [kind |-> "row", diagnostic |-> "", twice |-> 2]]}

\* relation_check_results when `if relations:` is false.
NoRelationChecks ==
    [state |-> "returned", results |-> <<>>, executed |-> <<>>,
     raised_at |-> 0, db |-> <<>>]

relation_check_results == relation_run.out.results

\* The state when run() has read the configuration, the schemas and the
\* relations, and validate_relation_refs has accepted the relations.
InitRun ==
    /\ CallIdle
    /\ table_defs \in RunSchemas
    /\ relations \in RunRelationLists(table_defs)
    /\ export \in BOOLEAN
    /\ order_result = Pending
    /\ pc = "build_load_order"
    /\ database = [file |-> "previous", created |-> <<>>, loaded |-> <<>>,
                   connection |-> "closed", used |-> {}]
    /\ all_load_errors = <<>>
    /\ check_failed_tables = {}
    /\ relation_run = NotRun
    /\ table_reports = <<>>
    /\ executed = <<>>
    /\ CheckIdle

\* ordered_defs = build_load_order(table_defs)
RunBuildLoadOrder ==
    /\ pc = "build_load_order"
    /\ order_result' \in build_load_order(table_defs)
    /\ pc' = IF order_result'.status = "ok" THEN "connect" ELSE "aborted"
    /\ UNCHANGED <<call_vars, table_defs, check_vars, relation_vars, export, database,
                   table_reports, executed>>

\* The mode of each connection run() opens: duckdb.connect(str(db_path)) for
\* the load, duckdb.connect(str(db_path), read_only=True) for the table
\* reports and the relation checks, and again for the export.
load_connection_mode == "rw"

\* A plausible slip: read_only=True left out of the second connection.
report_connection_mode_rw == "rw"

report_connection_mode == "ro"

export_connection_mode == "ro"

\* database.used with one more use: the stage, and the mode of the
\* connection the stage was handed.
Used(stage, mode) == database.used \cup {[stage |-> stage, mode |-> mode]}

\* The working database file is deleted if it exists and created anew; the
\* with block of conn_rw is entered.
Connect ==
    /\ pc = "connect"
    /\ database' = [database EXCEPT !.file = "fresh",
                                    !.connection = load_connection_mode]
    /\ pc' = "create_tables"
    /\ UNCHANGED <<call_vars, order_vars, check_vars, relation_vars, export,
                   table_reports, executed>>

\* build_create_table_sql(tdef) raises when quote_identifier rejects the
\* table's name.
build_create_table_sql_raises(td) == quote_identifier(Spelling(td.name)).raises

\* A plausible slip: CREATE TABLE is run lazily, only the first table being
\* created before the loads start.
created_tables_first_only(ordered) ==
    [k \in {i \in DOMAIN ordered :
                i = 1 /\ ~build_create_table_sql_raises(ordered[1])} |->
        ordered[k].name]

\* A plausible slip: the tables are created from the end of the order.
created_tables_reversed(ordered) ==
    [k \in DOMAIN ordered |-> ordered[Len(ordered) + 1 - k].name]

\* The tables create_tables creates, given in its order: those before the
\* first whose CREATE TABLE statement cannot be built.
created_tables(ordered) ==
    [k \in {i \in DOMAIN ordered :
                \A j \in 1..i : ~build_create_table_sql_raises(ordered[j])} |->
        ordered[k].name]

\* create_tables(conn, ordered_defs): the list is sorted once more and the
\* tables are created in that order, up to the first whose statement cannot
\* be built; that one raises out of run().
CreateTables ==
    /\ pc = "create_tables"
    /\ \E again \in build_load_order(ordered_defs) :
        /\ pc' = IF /\ again.status = "ok"
                    /\ \A k \in DOMAIN again.order :
                           ~build_create_table_sql_raises(again.order[k])
                 THEN "load_files" ELSE "aborted"
        /\ database' = [database EXCEPT
                            !.created = created_tables(again.order),
                            !.used = Used("create", database.connection),
                            !.connection = IF pc' = "aborted" THEN "closed" ELSE @]
    /\ UNCHANGED <<call_vars, order_vars, check_vars, relation_vars, export,
                   table_reports, executed>>

\* One iteration of the loop of _load_data: load_files for the next table.
LoadFiles ==
    /\ pc = "load_files"
    /\ LET td == ordered_defs[Len(database.loaded) + 1]
       IN  /\ \E errors \in RunLoadErrorLists :
                all_load_errors' = (td.name :> errors) @@ all_load_errors
           /\ pc' = IF Len(database.loaded) + 1 = Len(ordered_defs)
                    THEN "table_reports" ELSE "load_files"
           /\ database' = [database EXCEPT
                               !.loaded = Append(@, td.name),
                               !.used = Used("load", database.connection),
                               !.connection =
                                   IF pc' = "table_reports" THEN "closed" ELSE @]
    /\ UNCHANGED <<call_vars, order_vars, check_vars, relations, check_failed_tables,
                   relation_run, export, table_reports, executed>>

\* One iteration of the loop of _build_table_reports; the with block of
\* conn_ro is entered before the first.
BuildTableReport ==
    /\ pc = "table_reports"
    /\ LET conn == IF table_reports = <<>> THEN report_connection_mode
                   ELSE database.connection
       IN  database' = [database EXCEPT !.connection = conn,
                                        !.used = Used("table_reports", conn)]
    /\ LET td == ordered_defs[Len(table_reports) + 1]
       IN  \E db \in RunDatabases(td, all_load_errors[td.name]) :
               /\ table_reports' =
                      Append(table_reports,
                             build_table_report(td, all_load_errors[td.name], db).report)
               /\ executed' =
                      executed
                      \o build_table_report(td, all_load_errors[td.name], db).executed
    /\ pc' = IF Len(table_reports) + 1 = Len(ordered_defs)
             THEN "check_failed_tables" ELSE "table_reports"
    /\ UNCHANGED <<call_vars, order_vars, check_vars, relation_vars, export>>

\* The set comprehension over the finished table_reports.
CollectCheckFailedTables ==
    /\ pc = "check_failed_tables"
    /\ check_failed_tables' = collect_check_failed_tables(table_reports)
    /\ pc' = "relation_checks"
    /\ UNCHANGED <<call_vars, order_vars, check_vars, relations, all_load_errors,
                   relation_run, export, database, table_reports, executed>>

\* if relations: relation_check_results = run_relation_checks(...).  A call
\* that raises ends the run.  The with block of conn_ro is left either way.
RunRelations ==
    /\ pc = "relation_checks"
    /\ database' = [database EXCEPT
                        !.connection = "closed",
                        !.used = IF relations = <<>> THEN @
                                 ELSE Used("relation_checks", database.connection)]
    /\ IF relations = <<>>
       THEN /\ relation_run' = [state |-> "done", out |-> NoRelationChecks]
            /\ pc' = "export"
            /\ UNCHANGED executed
       ELSE \E db \in RelationDatabases(relations, all_load_errors,
                                        check_failed_tables) :
               LET out == run_relation_checks(relations, all_load_errors,
                                              check_failed_tables, db)
               IN  /\ relation_run' =
                          [state |-> "done", out |-> [out EXCEPT !.db = <<>>]]
                   /\ executed' =
                          executed
                          \o Logged("relation", "",
                                    [k \in DOMAIN out.executed |->
                                        out.executed[k].query])
                   /\ pc' = IF out.state = "raised" THEN "aborted" ELSE "export"
    /\ UNCHANGED <<call_vars, order_vars, check_vars, relations, all_load_errors,
                   check_failed_tables, export, table_reports>>

\* What a COPY statement can do.
ExportOutcomes ==
    {o \in QueryOutcomes :
        \/ (o.kind = "raises" /\ o.diagnostic = "Binder Error")
        \/ (o.kind = "row" /\ o.twice = 0)}

copy_sql(table_name) == [text |-> <<"copy">>, table |-> table_name]

tables_ok == \A i \in DOMAIN table_reports : overall_status(table_reports[i]) = "OK"

\* A plausible slip: the relation check results are not looked at.
relations_ok_unconditionally == TRUE

relations_ok ==
    \A i \in DOMAIN relation_check_results :
        relation_check_results[i].status \in {"OK", "SKIPPED"}

\* if export: the export block of run(), with a connection of its own.
Export ==
    /\ pc = "export"
    /\ database' = [database EXCEPT
                        !.used = IF export
                                 THEN Used("export", export_connection_mode)
                                 ELSE @]
    /\ IF ~export
       THEN UNCHANGED <<table_reports, executed>>
       ELSE IF ~(tables_ok /\ relations_ok)
       THEN /\ table_reports' =
                   [i \in DOMAIN table_reports |->
                       [table_reports[i] EXCEPT !.export_result =
                           Some(skipped_export(ordered_defs[i]))]]
            /\ UNCHANGED executed
       ELSE \E answers \in [DOMAIN table_reports -> ExportOutcomes] :
            /\ table_reports' =
                   [i \in DOMAIN table_reports |->
                       [table_reports[i] EXCEPT !.export_result =
                           Some(export_table(ordered_defs[i], answers[i]))]]
            /\ executed' =
                   executed
                   \o [i \in DOMAIN table_reports |->
                          [stage |-> "export", table |-> ordered_defs[i].name,
                           query |-> copy_sql(ordered_defs[i].name)]]
    /\ pc' = "generate_report"
    /\ UNCHANGED <<call_vars, order_vars, check_vars, relation_vars, export>>

\* generate_report(table_reports, ..., relation_check_results)
GenerateReport ==
    /\ pc = "generate_report"
    /\ pc' = "done"
    /\ UNCHANGED <<call_vars, order_vars, check_vars, relation_vars, export, database,
                   table_reports, executed>>

NextRun ==
    \/ RunBuildLoadOrder
    \/ Connect
    \/ CreateTables
    \/ LoadFiles
    \/ BuildTableReport
    \/ CollectCheckFailedTables
    \/ RunRelations
    \/ Export
    \/ GenerateReport

SpecRun == InitRun /\ [][NextRun]_vars

\* ------------------------------------------------------ properties of the run
\* The table's check results or aggregation-check results include a result
\* with status NG or ERROR.
HasNgOrError(report) ==
    \/ \E i \in DOMAIN report.check_results :
           report.check_results[i].status \in {"NG", "ERROR"}
    \/ \E i \in DOMAIN report.agg_check_results :
           report.agg_check_results[i].status \in {"NG", "ERROR"}

\* Every result of the table is OK or SKIPPED.
OnlyOkOrSkipped(report) ==
    /\ \A i \in DOMAIN report.check_results :
           report.check_results[i].status \in {"OK", "SKIPPED"}
    /\ \A i \in DOMAIN report.agg_check_results :
           report.agg_check_results[i].status \in {"OK", "SKIPPED"}

\* The run has derived the failed-table set.
Derived ==
    \/ pc \in {"relation_checks", "export", "generate_report", "done"}
    \/ (pc = "aborted" /\ relation_run # NotRun)

\* The per-table checks of all tables of the load order have finished.
AllTablesChecked ==
    /\ order_result.status = "ok"
    /\ Len(table_reports) = Len(ordered_defs)

\* C9: the failed-table set holds a table exactly when its check results or
\* aggregation-check results include an NG or an ERROR (OK and SKIPPED never
\* put a table in it), and it is derived once, in one step taken after the
\* per-table checks of all tables have finished, and never changed after.
C9_FailedTableSet ==
    /\ [](Derived =>
            /\ AllTablesChecked
            /\ check_failed_tables =
                   {table_reports[i].table_def.name : i \in
                       {j \in DOMAIN table_reports : HasNgOrError(table_reports[j])}}
            /\ \A i \in DOMAIN table_reports :
                   OnlyOkOrSkipped(table_reports[i])
                       => table_reports[i].table_def.name \notin check_failed_tables)
    /\ [][/\ check_failed_tables' # check_failed_tables
              => (~Derived /\ Derived' /\ AllTablesChecked)
          /\ Derived => (Derived' /\ check_failed_tables' = check_failed_tables)]_vars

\* A finished run of two tables: one whose only failure is an aggregation
\* check is in the set, one whose checks were all skipped is not.
C9_Witness ==
    /\ pc = "done"
    /\ \E i, j \in DOMAIN table_reports :
        /\ \A k \in DOMAIN table_reports[i].check_results :
               table_reports[i].check_results[k].status = "OK"
        /\ \E k \in DOMAIN table_reports[i].agg_check_results :
               table_reports[i].agg_check_results[k].status \in {"NG", "ERROR"}
        /\ table_reports[i].table_def.name \in check_failed_tables
        /\ \E k \in DOMAIN table_reports[j].check_results :
               table_reports[j].check_results[k].status = "SKIPPED"
        /\ table_reports[j].table_def.name \notin check_failed_tables

\* The positions of the log holding a profiling statement for the table.
ProfilingStatements(table_name) ==
    {k \in DOMAIN executed :
        executed[k].stage = "profile" /\ executed[k].table = table_name}

\* C10: a table with load errors or with an NG or ERROR check or
\* aggregation-check result has an empty profile list and no profiling
\* statement is executed for it; profiling statements are executed only for
\* a table with no load errors and no NG/ERROR result.
C10_NoProfilingOfInvalidTables ==
    /\ \A i \in DOMAIN table_reports :
        (table_reports[i].load_errors # <<>> \/ HasNgOrError(table_reports[i]))
            => /\ table_reports[i].profiles = <<>>
               /\ ProfilingStatements(table_reports[i].table_def.name) = {}
    /\ \A k \in DOMAIN executed :
        executed[k].stage = "profile"
            => \E i \in DOMAIN table_reports :
                /\ table_reports[i].table_def.name = executed[k].table
                /\ table_reports[i].load_errors = <<>>
                /\ ~HasNgOrError(table_reports[i])

\* A finished run of two tables: one was loaded cleanly and a check of it
\* ended in ERROR, so it has no profile and no profiling statement; the
\* other was profiled.
C10_Witness ==
    /\ pc = "done"
    /\ \E i, j \in DOMAIN table_reports :
        /\ table_reports[i].load_errors = <<>>
        /\ \E k \in DOMAIN table_reports[i].check_results :
               table_reports[i].check_results[k].status = "ERROR"
        /\ table_reports[i].profiles = <<>>
        /\ ProfilingStatements(table_reports[i].table_def.name) = {}
        /\ table_reports[j].profiles # <<>>
        /\ ProfilingStatements(table_reports[j].table_def.name) # {}


\* The export block of the run has been passed.
ExportBlockPassed == pc \in {"generate_report", "done"}

\* A table has load errors or an NG/ERROR check result, or a relation check
\* result is NG or ERROR.
ExportBlocked ==
    \/ \E i \in DOMAIN table_reports :
        table_reports[i].load_errors # <<>> \/ HasNgOrError(table_reports[i])
    \/ \E i \in DOMAIN relation_run.out.results :
        relation_run.out.results[i].status \in {"NG", "ERROR"}

\* The tables export_table was invoked for, one entry per invocation.
ExportInvocations ==
    SelectSeq(executed, LAMBDA e : e.stage = "export")

\* C11: with export requested, once the export block is passed: if a table
\* has load errors or an NG/ERROR check result or a relation check result is
\* NG or ERROR, export_table was invoked for no table and every export result
\* is SKIPPED; otherwise export_table was invoked once for every table of the
\* load order.  Without export requested no table ever has an export result.
C11_ExportGate ==
    /\ (export /\ ExportBlockPassed /\ ExportBlocked) =>
        /\ ExportInvocations = <<>>
        /\ \A i \in DOMAIN table_reports :
            /\ table_reports[i].export_result # None
            /\ table_reports[i].export_result[1].status = "SKIPPED"
    /\ (export /\ ExportBlockPassed /\ ~ExportBlocked) =>
        /\ Len(ExportInvocations) = Len(ordered_defs)
        /\ \A i \in DOMAIN ordered_defs :
            /\ ExportInvocations[i].table = ordered_defs[i].name
            /\ table_reports[i].export_result # None
            /\ table_reports[i].export_result[1].table_name = ordered_defs[i].name
            /\ table_reports[i].export_result[1].status \in {"OK", "ERROR"}
    /\ ~export =>
        /\ ExportInvocations = <<>>
        /\ \A i \in DOMAIN table_reports : table_reports[i].export_result = None

\* A finished run with export requested in which every table is clean and
\* the only failure is a relation check that ended NG: both tables SKIPPED.
C11_Witness ==
    /\ pc = "done"
    /\ export
    /\ Len(table_reports) = 2
    /\ \A i \in DOMAIN table_reports :
        /\ table_reports[i].load_errors = <<>>
        /\ ~HasNgOrError(table_reports[i])
        /\ table_reports[i].export_result # None
        /\ table_reports[i].export_result[1].status = "SKIPPED"
    /\ \E i \in DOMAIN relation_run.out.results :
        relation_run.out.results[i].status = "NG"


\* The tables whose export result is OK: the tables that have been exported.
ExportedTables ==
    {i \in DOMAIN table_reports :
        /\ table_reports[i].export_result # None
        /\ table_reports[i].export_result[1].status = "OK"}

\* C12: at the end of a run with export requested either every table has
\* been exported (every export result is OK) or no table has been exported:
\* no final state has some tables exported and another SKIPPED or ERROR.
C12_ExportAllOrNothing ==
    (pc = "done" /\ export) =>
        \/ ExportedTables = DOMAIN table_reports
        \/ ExportedTables = {}

\* When a table or a relation blocks the export, no table is exported.
C12_BlockedExportsNothing ==
    (pc = "done" /\ export /\ ExportBlocked) => ExportedTables = {}


\* ------------------------------------------------- specification: run, live
\* run() is one thread of straight-line code: a step that can be taken is
\* taken.
\* The runs followed to their end: two tables given in load order, t1 with
\* its checks and t2 referencing t1, so that every run has a valid
\* configuration.
InitRunLive ==
    /\ InitRun
    /\ Len(table_defs) = 2
    /\ table_defs[1].name = "t1"
    /\ table_defs[1].fks = <<>>
    /\ table_defs[1].aggregation_checks # <<>>
    /\ table_defs[2].fks = <<"t1">>

SpecRunLive == InitRunLive /\ [][NextRun]_vars /\ WF_vars(NextRun)

\* The configuration is valid: build_load_order has returned the load order
\* (the relations were validated before).
ConfigurationValid == pc # "build_load_order" /\ order_result.status = "ok"

\* What generate_report is handed: one TableReport per table of the load
\* order, in order, and for every declared relation all the check results its
\* cardinality calls for, each with one of the four statuses.
ReportComplete ==
    /\ Len(table_reports) = Len(ordered_defs)
    /\ \A i \in DOMAIN ordered_defs : table_reports[i].table_def = ordered_defs[i]
    /\ relation_run # NotRun
    /\ Len(relation_run.out.results) = ExpectedTotal
    /\ \A i \in DOMAIN relation_run.out.results :
        relation_run.out.results[i].status \in CheckStatus

\* C13: every run whose configuration is valid eventually generates the
\* report, whatever the load errors and the check and relation outcomes, and
\* the report holds one TableReport per table of the load order and all the
\* check results of every declared relation.
C13_ReportAlwaysGenerated ==
    ConfigurationValid ~> (pc = "done" /\ ReportComplete)

\* The same for runs whose relations have column lists of equal length.
C13_ForEqualArity ==
    (ConfigurationValid /\ EqualArity) ~> (pc = "done" /\ ReportComplete)


\* A table name of the schema is no valid identifier.
HasInvalidIdentifier ==
    \E i \in DOMAIN table_defs : ~fullmatch(Spelling(table_defs[i].name))

\* The configuration errors: a dangling FK reference, a cyclic FK dependency,
\* a name that is no valid identifier.
ConfigurationError ==
    \/ ~AllFkTargetsDefined
    \/ HasFkCycle
    \/ HasInvalidIdentifier

\* No data has been touched: the existing working database file is still
\* there, no table has been created and no data file has been loaded.
NoDataTouched ==
    /\ database.file = "previous"
    /\ database.created = <<>>
    /\ database.loaded = <<>>

\* C14: a configuration error (dangling FK reference, cyclic FK dependency,
\* invalid identifier) aborts the run before any data is touched: when the
\* run has aborted the existing database file has not been removed, no table
\* has been created, no data file has been loaded, and no report is produced.
C14_ConfigurationErrorTouchesNothing ==
    ConfigurationError =>
        /\ pc \notin {"generate_report", "done"}
        /\ pc = "aborted" => NoDataTouched

\* The same for the configuration errors of the FK graph alone.
C14_ForFkErrors ==
    (~AllFkTargetsDefined \/ HasFkCycle) =>
        /\ pc \in {"build_load_order", "aborted"}
        /\ NoDataTouched


\* In the sequence of table names, every table referenced by a foreign key
\* of a table of the sequence comes before that table.
ReferencedFirst(names) ==
    \A p \in DOMAIN names : \A e \in FkPairs :
        e[1] = names[p] => \E q \in 1..(p - 1) : names[q] = e[2]

\* C15: whatever the order in which the schemas were given, the CREATE TABLE
\* statements and the data loads are each issued in an order in which every
\* FK-referenced table comes before every table that references it.
C15_DdlAndLoadInFkOrder ==
    /\ ReferencedFirst(database.created)
    /\ ReferencedFirst(database.loaded)

\* A finished run whose schemas were given with the referencing table first:
\* both tables were created and loaded, the referenced one first.
C15_Witness ==
    /\ pc = "done"
    /\ Len(table_defs) = 2
    /\ table_defs[1].fks = <<table_defs[2].name>>
    /\ database.created = <<table_defs[2].name, table_defs[1].name>>
    /\ database.loaded = <<table_defs[2].name, table_defs[1].name>>

\* =========================================================================
\* loader.py: parse_duckdb_error
\* =========================================================================
\* A DuckDB error message is a sequence of the pieces of text that the
\* patterns of parse_duckdb_error look for, joined by single spaces:
\*   convert   Could not convert string "x" to INT64 in column "c1"
\*   row       Row: 3
\*   row_long  Row: followed by more digits than int() converts
\*   not_null  NOT NULL constraint failed: t.c2
\*   columns   has 3 columns but 5 values
\*   fk_head   Violates foreign key constraint because key
\*   fk_tail   does not exist
\*   dup_head  Duplicate key
\*   pk_tail   violates primary key constraint
\*   uq_tail   violates unique constraint
\*   newline   a line break
Fragments ==
    {"convert", "row", "row_long", "not_null", "columns", "fk_head",
     "fk_tail", "dup_head", "pk_tail", "uq_tail", "newline"}

MaxFragments == 4    \* fragments of one error message

Messages == SeqsUpTo(Fragments, MaxFragments)

FilePaths == {"a.csv", "b.csv"}

RowFragments == {"row", "row_long"}

\* The digits after "Row: ": their value, and whether they are more than the
\* interpreter converts to an integer (sys.int_info.default_max_str_digits).
RowDigits(fragment) ==
    IF fragment = "row"
    THEN [value |-> 3, over_limit |-> FALSE]
    ELSE [value |-> 0, over_limit |-> TRUE]

\* int(text) for a string of digits: ValueError above the digit limit.
int(digits) ==
    IF digits.over_limit
    THEN [raises |-> TRUE, value |-> "ValueError"]
    ELSE [raises |-> FALSE, value |-> digits.value]

NoMatch == [matched |-> FALSE, column |-> None, digits |-> None]

\* re.search(r'Could not convert .+ to (\w+) in column "(\w+)".+Row: (\d+)',
\* message, re.DOTALL): a convert piece with a row piece anywhere after it;
\* the greedy .+ takes the last row piece of the message.
search_type_mismatch(message) ==
    IF \E i, j \in DOMAIN message :
          i < j /\ message[i] = "convert" /\ message[j] \in RowFragments
    THEN LET last == CHOOSE j \in DOMAIN message :
                        /\ message[j] \in RowFragments
                        /\ \A k \in DOMAIN message :
                              k > j => message[k] \notin RowFragments
         IN  [matched |-> TRUE, column |-> Some("c1"),
              digits |-> Some(RowDigits(message[last]))]
    ELSE NoMatch

\* re.search(r"NOT NULL constraint failed: \w+\.(\w+)", message)
search_not_null(message) ==
    IF \E i \in DOMAIN message : message[i] = "not_null"
    THEN [matched |-> TRUE, column |-> Some("c2"), digits |-> None]
    ELSE NoMatch

\* re.search(r"has (\d+) columns but (\d+) values", message)
search_column_mismatch(message) ==
    IF \E i \in DOMAIN message : message[i] = "columns"
    THEN [matched |-> TRUE, column |-> None, digits |-> None]
    ELSE NoMatch

\* head .+ tail without re.DOTALL: text between the two pieces, on one line.
SameLineBetween(message, head, tails) ==
    \E i, j \in DOMAIN message :
        /\ message[i] = head
        /\ message[j] \in tails
        /\ j >= i + 2
        /\ \A k \in (i + 1)..(j - 1) : message[k] # "newline"

\* re.search(r"Violates foreign key constraint because key .+ does not
\* exist", message)
search_fk_violation(message) ==
    IF SameLineBetween(message, "fk_head", {"fk_tail"})
    THEN [matched |-> TRUE, column |-> None, digits |-> None]
    ELSE NoMatch

\* re.search(r"Duplicate key .+ violates (primary key|unique) constraint",
\* message)
search_unique_violation(message) ==
    IF SameLineBetween(message, "dup_head", {"pk_tail", "uq_tail"})
    THEN [matched |-> TRUE, column |-> None, digits |-> None]
    ELSE NoMatch

LoadError(file_path, error_type, column, row, raw_message) ==
    [raises |-> FALSE,
     value |-> [file_path |-> file_path, error_type |-> error_type,
                column |-> column, row |-> row, raw_message |-> raw_message]]

\* parse_duckdb_error(file_path, message): the rules in the order of the
\* code, the first that matches returning.
parse_duckdb_error(file_path, message) ==
    IF search_type_mismatch(message).matched
    THEN LET m == search_type_mismatch(message)
             row == int(m.digits[1])
         IN  IF row.raises THEN row
             ELSE LoadError(file_path, "TYPE_MISMATCH", m.column,
                            Some(row.value), message)
    ELSE IF search_not_null(message).matched
    THEN LoadError(file_path, "NOT_NULL", search_not_null(message).column,
                   None, message)
    ELSE IF search_column_mismatch(message).matched
    THEN LoadError(file_path, "COLUMN_MISMATCH", None, None, message)
    ELSE IF search_fk_violation(message).matched
    THEN LoadError(file_path, "FK_VIOLATION", None, None, message)
    ELSE IF search_unique_violation(message).matched
    THEN LoadError(file_path, "UNIQUE_VIOLATION", None, None, message)
    ELSE LoadError(file_path, "UNKNOWN", None, None, message)

\* ------------------------------------------------------ specification: parse
\* The variables of the run and of the engines, at rest.
EnginesIdle == OrderIdle /\ CheckIdle /\ RelationIdle /\ RunIdle

InitParse ==
    /\ call \in [fn : {"parse_duckdb_error"}, file_path : FilePaths,
                 message : Messages]
    /\ returned = <<>>
    /\ EnginesIdle

ParseDuckdbError ==
    /\ returned = <<>>
    /\ returned' = parse_duckdb_error(call.file_path, call.message)
    /\ UNCHANGED <<call, order_vars, check_vars, relation_vars, run_vars>>

NextParse == ParseDuckdbError

SpecParse == InitParse /\ [][NextParse]_vars

\* ------------------------------------------- properties of parse_duckdb_error
Parsed == call # <<>> /\ call.fn = "parse_duckdb_error" /\ returned # <<>>

\* The rule the claim expects: the first of the five, in the claimed order,
\* whose pattern the message matches, and UNKNOWN when none does.
FirstMatchingRule(message) ==
    IF search_type_mismatch(message).matched THEN "TYPE_MISMATCH"
    ELSE IF search_not_null(message).matched THEN "NOT_NULL"
    ELSE IF search_column_mismatch(message).matched THEN "COLUMN_MISMATCH"
    ELSE IF search_fk_violation(message).matched THEN "FK_VIOLATION"
    ELSE IF search_unique_violation(message).matched THEN "UNIQUE_VIOLATION"
    ELSE "UNKNOWN"

ClassifiedAsClaimed ==
    /\ returned.value.error_type = FirstMatchingRule(call.message)
    /\ returned.value.raw_message = call.message
    /\ returned.value.file_path = call.file_path
    /\ returned.value.row # None
          => returned.value.error_type = "TYPE_MISMATCH"
    /\ returned.value.column # None
          => returned.value.error_type \in {"TYPE_MISMATCH", "NOT_NULL"}

\* C16: parse_duckdb_error never raises, for any message: it returns the
\* error of the first rule that matches, in the order TYPE_MISMATCH,
\* NOT_NULL, COLUMN_MISMATCH, FK_VIOLATION, UNIQUE_VIOLATION, and UNKNOWN
\* when none matches; raw_message is the message and file_path the path
\* given; row is set only for TYPE_MISMATCH, column only for TYPE_MISMATCH
\* and NOT_NULL.
C16_ParseNeverRaises ==
    Parsed => (~returned.raises /\ ClassifiedAsClaimed)

\* The part of C16 that holds: whenever parse_duckdb_error returns, what it
\* returns is classified as claimed; and it returns for every message whose
\* row number int() converts.
C16_WhenItReturns ==
    Parsed =>
        /\ ~returned.raises => ClassifiedAsClaimed
        /\ returned.raises <=>
              /\ search_type_mismatch(call.message).matched
              /\ search_type_mismatch(call.message).digits[1].over_limit

\* A message that matches two rules, classified by the earlier one.
C16_TwoRulesMatch ==
    /\ Parsed
    /\ ~returned.raises
    /\ search_fk_violation(call.message).matched
    /\ search_unique_violation(call.message).matched
    /\ returned.value.error_type = "FK_VIOLATION"

\* =========================================================================
\* builder.py: validate_identifier and quote_identifier, called on their own
\* =========================================================================
\* The characters of the names tried: a lower-case and an upper-case letter,
\* the underscore, a digit, and characters no identifier may hold.
NameCharacters == {"a", "Z", "_", "1", " ", "-", "\"", "\n"}

MaxNameLen == 3      \* characters of a name handed to validate_identifier

IdentifierNames == SeqsUpTo(NameCharacters, MaxNameLen)

InitIdentifier ==
    /\ call \in [fn : {"validate_identifier", "quote_identifier"},
                 name : IdentifierNames]
    /\ returned = <<>>
    /\ EnginesIdle

ValidateIdentifier ==
    /\ returned = <<>>
    /\ call.fn = "validate_identifier"
    /\ returned' = validate_identifier(call.name)
    /\ UNCHANGED <<call, order_vars, check_vars, relation_vars, run_vars>>

QuoteIdentifier ==
    /\ returned = <<>>
    /\ call.fn = "quote_identifier"
    /\ returned' = quote_identifier(call.name)
    /\ UNCHANGED <<call, order_vars, check_vars, relation_vars, run_vars>>

NextIdentifier == ValidateIdentifier \/ QuoteIdentifier

SpecIdentifier == InitIdentifier /\ [][NextIdentifier]_vars

\* ---------------------------------------------- properties of the identifiers
\* The whole string matches [A-Za-z_][A-Za-z0-9_]*, read off the string.
WholeStringMatches(name) ==
    /\ Len(name) >= 1
    /\ \A i \in 1..Len(name) :
          \/ name[i] \in Letters
          \/ name[i] = "_"
          \/ i > 1 /\ name[i] \in Digits

IdentifierCalled(fn) == call # <<>> /\ call.fn = fn /\ returned # <<>>

InvalidIdentifierError ==
    returned.raises /\ returned.value[1] = "Invalid identifier"

\* C17: validate_identifier returns its argument unchanged when the whole
\* string matches [A-Za-z_][A-Za-z0-9_]* and fails with an invalid-identifier
\* error for every other string; quote_identifier returns the name between
\* one pair of double quotes exactly when validate_identifier accepts it and
\* fails otherwise, so that no double quote stands inside the outer pair.
C17_IdentifierValidation ==
    /\ IdentifierCalled("validate_identifier") =>
          IF WholeStringMatches(call.name)
          THEN ~returned.raises /\ returned.value = call.name
          ELSE InvalidIdentifierError
    /\ IdentifierCalled("quote_identifier") =>
          IF WholeStringMatches(call.name)
          THEN /\ ~returned.raises
               /\ returned.value = <<"\"">> \o call.name \o <<"\"">>
               /\ \A i \in 2..(Len(returned.value) - 1) :
                     returned.value[i] # "\""
          ELSE InvalidIdentifierError

\* quote_identifier has quoted a name of several characters, a digit among
\* them.
C17_Witness ==
    /\ IdentifierCalled("quote_identifier")
    /\ ~returned.raises
    /\ Len(call.name) >= 2
    /\ \E i \in DOMAIN call.name : call.name[i] \in Digits

\* validate_identifier has refused a name that a double quote follows a
\* letter in.
C17_RefusedQuote ==
    /\ IdentifierCalled("validate_identifier")
    /\ returned.raises
    /\ Len(call.name) >= 2
    /\ call.name[1] \in Letters
    /\ call.name[2] = "\""

\* =========================================================================
\* checker.py: the range check, evaluated over the rows of a table
\* =========================================================================
\* The columns tried: min and max undeclared, 0 or 2.  The parser refuses a
\* column whose min is above its max (validate_min_max_type).
RangeColumns ==
    {c \in [allowed_values : {<<>>}, min : {None, Some(0), Some(2)},
            max : {None, Some(0), Some(2)}] :
        (c.min # None /\ c.max # None) => c.min[1] <= c.max[1]}

\* The values of the column, one per row: None is NULL.
RangeValues == {None} \cup {Some(v) : v \in -1..3}

MaxRows == 3         \* rows of the table a range check reads

RangeRows == SeqsUpTo(RangeValues, MaxRows)

\* SQL's three truth values.
sql_compare(value, op, param) ==
    IF value = None THEN "NULL"
    ELSE IF \/ op = "<" /\ value[1] < param
            \/ op = ">" /\ value[1] > param
            \/ op = "<=" /\ value[1] <= param
            \/ op = ">=" /\ value[1] >= param
         THEN "TRUE"
         ELSE "FALSE"

sql_or(a, b) ==
    IF a = "TRUE" \/ b = "TRUE" THEN "TRUE"
    ELSE IF a = "NULL" \/ b = "NULL" THEN "NULL"
    ELSE "FALSE"

sql_and(a, b) ==
    IF a = "FALSE" \/ b = "FALSE" THEN "FALSE"
    ELSE IF a = "NULL" \/ b = "NULL" THEN "NULL"
    ELSE "TRUE"

sql_is_not_null(value) == IF value = None THEN "FALSE" ELSE "TRUE"

\* " OR ".join(conditions), evaluated for one value with the bound
\* parameters.
RECURSIVE where_clause(_, _, _)
where_clause(conditions, params, value) ==
    IF Len(conditions) = 1
    THEN sql_compare(value, conditions[1], params[1])
    ELSE sql_or(sql_compare(value, conditions[1], params[1]),
                where_clause(Tail(conditions), Tail(params), value))

\* SELECT COUNT(*) FROM t WHERE (where_clause) AND col IS NOT NULL: the rows
\* for which the condition is true.
range_query_count(check, rows) ==
    Cardinality({r \in DOMAIN rows :
        sql_and(where_clause(check.conditions, check.params, rows[r]),
                sql_is_not_null(rows[r])) = "TRUE"})

CountRow(count) == [kind |-> "row", diagnostic |-> "", twice |-> 2 * count]

\* The range part of run_checks for a table of one column, the connection
\* answering the generated query from the rows.
range_check_results(col, rows) ==
    LET td == [name |-> CheckTableName, columns |-> <<col>>]
    IN  MapSeq(range_checks(td),
               LAMBDA c : _execute_check(c, td.name,
                              CountRow(range_query_count(c, rows))))

\* ------------------------------------------------------ specification: range
InitRange ==
    /\ call \in [fn : {"_build_range_check"}, col : RangeColumns,
                 rows : RangeRows]
    /\ returned = <<>>
    /\ EnginesIdle

RunRangeCheck ==
    /\ returned = <<>>
    /\ returned' = [results |-> range_check_results(call.col, call.rows)]
    /\ UNCHANGED <<call, order_vars, check_vars, relation_vars, run_vars>>

NextRange == RunRangeCheck

SpecRange == InitRange /\ [][NextRange]_vars

\* ---------------------------------------------- properties of the range check
RangeChecked == call # <<>> /\ call.fn = "_build_range_check" /\ returned # <<>>

\* The rows whose value is non-null and strictly below the declared min or
\* strictly above the declared max.
RangeViolations(col, rows) ==
    {r \in DOMAIN rows :
        /\ rows[r] # None
        /\ \/ col.min # None /\ rows[r][1] < col.min[1]
           \/ col.max # None /\ rows[r][1] > col.max[1]}

\* C18: a range check is generated for a column iff min or max is declared,
\* a bound of 0 counting as declared; its violation count is the number of
\* rows whose value is non-null and strictly below min or strictly above
\* max.  A value strictly outside a bound gives NG, values at a bound give
\* OK, and NULL values are never violations.
C18_RangeCheck ==
    RangeChecked =>
        LET col == call.col
            rows == call.rows
            results == returned.results
        IN  /\ Len(results) = (IF col.min # None \/ col.max # None THEN 1 ELSE 0)
            /\ \A k \in DOMAIN results :
                  /\ results[k].result_count
                        = Some(Cardinality(RangeViolations(col, rows)))
                  /\ results[k].status
                        = (IF RangeViolations(col, rows) = {} THEN "OK" ELSE "NG")
                  /\ (\A r \in DOMAIN rows :
                         \/ rows[r] = None
                         \/ rows[r] = col.min
                         \/ rows[r] = col.max)
                        => results[k].status = "OK"

\* A check with both bounds, min being 0, over a NULL, a value at a bound
\* and a value outside: one violation, NG.
C18_Witness ==
    /\ RangeChecked
    /\ call.col.min = Some(0)
    /\ call.col.max = Some(2)
    /\ call.rows = <<None, Some(0), Some(3)>>
    /\ Len(returned.results) = 1
    /\ returned.results[1].status = "NG"
    /\ returned.results[1].result_count = Some(1)

\* Only NULLs and values at the bounds: OK.
C18_AtBounds ==
    /\ RangeChecked
    /\ call.col.min = Some(0)
    /\ call.col.max = Some(2)
    /\ call.rows = <<Some(2), None, Some(0)>>
    /\ returned.results[1].status = "OK"

\* =========================================================================
\* relation.py: the generated queries, evaluated over the rows of two tables
\* =========================================================================
\* The rows of a table with the key columns k1 and k2; None is NULL.
KeyRows == [k1 : {None, Some(1), Some(2)}, k2 : {None, Some(1)}]

MaxSourceRows == 2   \* rows of the table on the N side of a relation

\* The relations tried: t1 on the 1 side and t2 on the N side, declared in
\* either direction, with keys of one or two columns; the columns of the two
\* endpoints pair by position, not by name.
ReferentialRelations ==
    {rel \in [name : {"r"}, cardinality : {"1:N", "N:1"},
              from_ : [table : RelationTables,
                       columns : {<<"k1">>, <<"k1", "k2">>}],
              to : [table : RelationTables,
                    columns : {<<"k1">>, <<"k2", "k1">>}]] :
        /\ rel.cardinality = "1:N" => rel.from_.table = "t1" /\ rel.to.table = "t2"
        /\ rel.cardinality = "N:1" => rel.from_.table = "t2" /\ rel.to.table = "t1"}

ReferentialData ==
    [t1 : SeqsUpTo(KeyRows, 2), t2 : SeqsUpTo(KeyRows, MaxSourceRows)]

sql_eq(a, b) ==
    IF a = None \/ b = None THEN "NULL"
    ELSE IF a = b THEN "TRUE" ELSE "FALSE"

RECURSIVE sql_all(_)
\* " AND ".join(...) of three-valued terms.
sql_all(terms) ==
    IF Len(terms) = 1 THEN terms[1]
    ELSE sql_and(terms[1], sql_all(Tail(terms)))

\* ON s.sc1 = t.tc1 AND ...: the columns paired by position.
join_cond(srow, source_cols, trow, target_cols) ==
    sql_all([i \in DOMAIN source_cols |->
                sql_eq(srow[source_cols[i]], trow[target_cols[i]])])

\* A plausible slip: one non-null key column is enough for a row to count.
null_filter_any(srow, source_cols) ==
    IF \E i \in DOMAIN source_cols : srow[source_cols[i]] # None
    THEN "TRUE" ELSE "FALSE"

\* s.sc1 IS NOT NULL AND ...
null_filter(srow, source_cols) ==
    sql_all([i \in DOMAIN source_cols |-> sql_is_not_null(srow[source_cols[i]])])

\* The rows of source LEFT JOIN target: <<r, j>> pairs source row r with the
\* target row j the join condition is true for, and <<r, 0>> extends a source
\* row without such a target row by NULLs.
left_join(source, source_cols, target, target_cols) ==
    {<<r, j>> \in (DOMAIN source) \X (DOMAIN target) :
        join_cond(source[r], source_cols, target[j], target_cols) = "TRUE"}
    \cup {<<r, 0>> : r \in {r \in DOMAIN source :
              \A j \in DOMAIN target :
                  join_cond(source[r], source_cols, target[j], target_cols)
                      # "TRUE"}}

\* t.tc1 IS NULL AND ..., for a row of the join.
target_null(target, target_cols, j) ==
    IF j = 0 THEN "TRUE"
    ELSE sql_all([i \in DOMAIN target_cols |->
                    IF target[j][target_cols[i]] = None THEN "TRUE" ELSE "FALSE"])

\* SELECT COUNT(*) FROM source s LEFT JOIN target t ON join_cond
\* WHERE null_filter AND target_null
referential_count(source, source_cols, target, target_cols) ==
    Cardinality({p \in left_join(source, source_cols, target, target_cols) :
        sql_and(null_filter(source[p[1]], source_cols),
                target_null(target, target_cols, p[2])) = "TRUE"})

KeyOf(row, cols) == [i \in DOMAIN cols |-> row[cols[i]]]

\* SELECT COUNT(*) FROM (SELECT cols FROM table GROUP BY cols
\* HAVING COUNT(*) > 1): GROUP BY puts NULLs in one group.
uniqueness_count(rows, cols) ==
    Cardinality({key \in {KeyOf(rows[r], cols) : r \in DOMAIN rows} :
        Cardinality({r \in DOMAIN rows : KeyOf(rows[r], cols) = key}) > 1})

\* What the connection answers to a generated query, from the rows.
evaluate_query(query, data) ==
    IF query.text[1] = "referential"
    THEN referential_count(data[query.text[2]], query.text[3],
                           data[query.text[4]], query.text[5])
    ELSE uniqueness_count(data[query.text[2]], query.text[3])

\* The database holding `data`, as the answers to the queries that
\* _build_relation_checks builds for rel.
database_of(rel, data) ==
    [q \in {(_relation_check_list(rel))[i].query :
                i \in {i \in DOMAIN _relation_check_list(rel) :
                          ~(_relation_check_list(rel))[i].raises}} |->
        CountRow(evaluate_query(q, data))]

\* ------------------------------------------------ specification: referential
InitReferential ==
    /\ call \in [fn : {"run_relation_checks"}, rel : ReferentialRelations,
                 data : ReferentialData]
    /\ returned = <<>>
    /\ EnginesIdle

RunReferentialCheck ==
    /\ returned = <<>>
    /\ returned' =
          [run_relation_checks(<<call.rel>>, <<>>, {},
                               database_of(call.rel, call.data))
              EXCEPT !.db = <<>>]
    /\ UNCHANGED <<call, order_vars, check_vars, relation_vars, run_vars>>

NextReferential == RunReferentialCheck

SpecReferential == InitReferential /\ [][NextReferential]_vars

\* ---------------------------------------- properties of the referential check
ReferentialChecked ==
    /\ call # <<>>
    /\ call.fn = "run_relation_checks"
    /\ returned # <<>>
    /\ returned.state = "returned"

\* The N side and the 1 side of the relation of the call.
NSide == IF call.rel.cardinality = "1:N" THEN call.rel.to ELSE call.rel.from_
OneSide == IF call.rel.cardinality = "1:N" THEN call.rel.from_ ELSE call.rel.to

\* The source rows whose key tuple is entirely non-null and is the key tuple
\* of no target row.
Orphans(source, source_cols, target, target_cols) ==
    {r \in DOMAIN source :
        /\ \A i \in DOMAIN source_cols : source[r][source_cols[i]] # None
        /\ \A j \in DOMAIN target :
              KeyOf(target[j], target_cols) # KeyOf(source[r], source_cols)}

NSideOrphans ==
    Orphans(call.data[NSide.table], NSide.columns,
            call.data[OneSide.table], OneSide.columns)

\* C19: the referential check source -> target counts exactly the source
\* rows whose key tuple is entirely non-null and equals the key tuple of no
\* target row; a source row with a NULL in a key column is never counted.
\* In a 1:N relation an N-side row with a non-null key absent from the 1
\* side makes the referential check NG, and a row with a NULL key does not.
C19_ReferentialCount ==
    ReferentialChecked =>
        /\ Len(returned.results) = 2
        /\ returned.results[2].description
              = <<"referential integrity", NSide.table, OneSide.table>>
        /\ returned.results[2].result_count = Some(Cardinality(NSideOrphans))
        /\ returned.results[2].status
              = (IF NSideOrphans = {} THEN "OK" ELSE "NG")
        /\ (\A r \in DOMAIN call.data[NSide.table] :
               \E i \in DOMAIN NSide.columns :
                   call.data[NSide.table][r][NSide.columns[i]] = None)
              => returned.results[2].status = "OK"

\* A 1:N relation on a key of two columns: of the two N-side rows, one has a
\* NULL in its key and one has a key absent from the 1 side, whose only row
\* shares one column of that key.  One orphan, NG.
C19_Witness ==
    /\ ReferentialChecked
    /\ call.rel.cardinality = "1:N"
    /\ Len(call.rel.from_.columns) = 2
    /\ call.data.t1 = <<[k1 |-> Some(1), k2 |-> Some(1)]>>
    /\ call.data.t2 = <<[k1 |-> Some(2), k2 |-> None],
                        [k1 |-> Some(2), k2 |-> Some(1)]>>
    /\ returned.results[2].status = "NG"
    /\ returned.results[2].result_count = Some(1)

\* An N-side row whose key is NULL, the 1 side being empty: OK.
C19_NullKeyIsNoOrphan ==
    /\ ReferentialChecked
    /\ call.rel.cardinality = "1:N"
    /\ Len(call.rel.from_.columns) = 1
    /\ call.data.t1 = <<>>
    /\ call.data.t2 = <<[k1 |-> None, k2 |-> Some(1)]>>
    /\ returned.results[2].status = "OK"

\* =========================================================================
\* loader.py: load_files
\* =========================================================================
\* The entries a source directory may hold, in the order sorted() puts their
\* paths (by code point: "." before "B" before "a").  sub is a directory.
PathOrder == <<".x.csv", "B.xls", "a.csv", "c.json", "d.XLSX", "e.parquet", "sub">>

DirectoryEntries == {PathOrder[i] : i \in DOMAIN PathOrder}

\* f.is_file()
is_file(entry) == entry # "sub"

\* f.name.startswith(".")
is_hidden(entry) == entry = ".x.csv"

\* file.suffix
suffix(entry) ==
    IF entry \in {".x.csv", "a.csv"} THEN ".csv"
    ELSE IF entry = "B.xls" THEN ".xls"
    ELSE IF entry = "c.json" THEN ".json"
    ELSE IF entry = "d.XLSX" THEN ".XLSX"
    ELSE IF entry = "e.parquet" THEN ".parquet"
    ELSE ""

\* str.lower()
lower(text) == IF text = ".XLSX" THEN ".xlsx" ELSE text

SUPPORTED_EXTENSIONS == {".csv", ".xlsx", ".parquet"}

\* sorted(f for f in source_dir.iterdir()
\*        if f.is_file() and not f.name.startswith("."))
sorted_files(directory) ==
    SelectSeq(PathOrder,
              LAMBDA f : f \in directory /\ is_file(f) /\ ~is_hidden(f))

\* The messages of the exceptions an insert can raise.  The row number of a
\* DuckDB message is a 64-bit count, of 20 digits at most.
InsertMessages ==
    {<<"convert", "row">>, <<"not_null">>, <<"fk_head", "convert", "fk_tail">>,
     <<"newline">>}

\* What the try block of _insert_file can do: run to its end, raise
\* EncodingDetectionError (_resolve_csv_path, for a .csv file), or raise
\* another exception with a message.
InsertOutcomes(ext) ==
    {[kind |-> "ok", message |-> <<>>]}
    \cup (IF ext = ".csv"
          THEN {[kind |-> "encoding", message |-> <<>>]} ELSE {})
    \cup [kind : {"raises"}, message : InsertMessages]

\* What the INSERT of a delimited-text file does when the file has a column
\* that the table has not: DuckDB refuses it, with its count of the columns
\* and values (SELECT *) or with a message no rule matches (a SELECT list
\* and a columns override, for a table with a format column).
ExtraColumnOutcomes ==
    [kind : {"raises"}, message : {<<"columns">>, <<"newline">>}]

\* _insert_file(conn, tdef, file_path, ext, confidence_threshold): None, a
\* LoadError, or the exception that parse_duckdb_error raises.
_insert_file(file_path, ext, outcome) ==
    IF outcome.kind = "ok"
    THEN [raises |-> FALSE, value |-> None]
    ELSE IF outcome.kind = "encoding"
    THEN [raises |-> FALSE,
          value |-> Some(LoadError(file_path, "ENCODING_DETECTION_FAILED",
                                   None, None, <<"encoding">>).value)]
    ELSE LET error == parse_duckdb_error(file_path, outcome.message)
         IN  IF error.raises THEN error
             ELSE [raises |-> FALSE, value |-> Some(error.value)]

\* A plausible slip: every extension that is not supported is refused with
\* an error, as .xls is.
unsupported_format_any_unrecognized(ext) == ext \notin SUPPORTED_EXTENSIONS

\* A plausible slip: the .xls branch is missing, and a .xls file is skipped
\* like a file of any unrecognized extension.
unsupported_format_never(ext) == FALSE

\* if ext == ".xls":
unsupported_format(ext) == ext = ".xls"

RECURSIVE load_loop(_, _, _)
\* for file in files: the loop from the head of `files` on, acc holding the
\* errors appended, the files visited and the inserts attempted so far.
load_loop(files, outcomes, acc) ==
    IF files = <<>> THEN acc
    ELSE LET file == Head(files)
             ext == lower(suffix(file))
             seen == [acc EXCEPT !.visited = Append(@, file)]
         IN  IF unsupported_format(ext)
             THEN load_loop(Tail(files), outcomes,
                      [seen EXCEPT !.errors = Append(@,
                          LoadError(file, "UNSUPPORTED_FORMAT", None, None,
                                    <<"unsupported", file>>).value)])
             ELSE IF ext \notin SUPPORTED_EXTENSIONS
             THEN load_loop(Tail(files), outcomes, seen)
             ELSE LET error == _insert_file(file, ext, outcomes[file])
                      tried == [seen EXCEPT !.attempts = Append(@,
                                   [file |-> file, ext |-> ext,
                                    outcome |-> outcomes[file]])]
                  IN  IF error.raises
                      THEN [tried EXCEPT !.raises = TRUE, !.errors = <<>>]
                      ELSE load_loop(Tail(files), outcomes,
                               [tried EXCEPT !.errors = @ \o error.value])

SourceDir == "data/t"

\* load_files(conn, tdef, confidence_threshold), the inserts behaving as
\* `outcomes` says.
load_files(directory, outcomes) ==
    IF sorted_files(directory) = <<>>
    THEN [raises |-> FALSE,
          errors |-> <<LoadError(SourceDir, "NO_FILES", None, None,
                                 <<"no files", SourceDir>>).value>>,
          visited |-> <<>>, attempts |-> <<>>]
    ELSE load_loop(sorted_files(directory), outcomes,
             [raises |-> FALSE, errors |-> <<>>, visited |-> <<>>,
              attempts |-> <<>>])

\* ------------------------------------------------------- specification: load
InitLoad ==
    /\ call \in {c \in [fn : {"load_files"},
                         directory : SUBSET DirectoryEntries,
                         extra_columns : SUBSET {"a.csv"}] :
                    c.extra_columns \subseteq c.directory}
    /\ returned = <<>>
    /\ EnginesIdle

\* The behaviours of the inserts, one per file that load_files may insert.
\* extra_columns holds the files with a column absent from the schema.
LoadOutcomes(directory, extra_columns) ==
    {outcomes \in [{f \in directory : lower(suffix(f)) \in SUPPORTED_EXTENSIONS} ->
                      ExtraColumnOutcomes
                      \cup UNION {InsertOutcomes(ext) : ext \in SUPPORTED_EXTENSIONS}] :
        \A f \in DOMAIN outcomes :
            IF f \in extra_columns
            THEN outcomes[f] \in ExtraColumnOutcomes
            ELSE outcomes[f] \in InsertOutcomes(lower(suffix(f)))}

LoadFilesCall ==
    /\ returned = <<>>
    /\ \E outcomes \in LoadOutcomes(call.directory, call.extra_columns) :
          returned' = load_files(call.directory, outcomes)
    /\ UNCHANGED <<call, order_vars, check_vars, relation_vars, run_vars>>

NextLoad == LoadFilesCall

SpecLoad == InitLoad /\ [][NextLoad]_vars

\* ------------------------------------------------- properties of load_files
Loaded == call # <<>> /\ call.fn = "load_files" /\ returned # <<>>

\* The files of the directory that are not hidden, directories left out.
VisibleFiles == {f \in call.directory : f # "sub" /\ f # ".x.csv"}

Rank(entry) == CHOOSE i \in DOMAIN PathOrder : PathOrder[i] = entry

ErrorsOf(file) ==
    {k \in DOMAIN returned.errors : returned.errors[k].file_path = file}

AttemptsOf(file) ==
    {k \in DOMAIN returned.attempts : returned.attempts[k].file = file}

\* The extension the claim reads: the suffix, letter case apart.
Extension(file) ==
    IF file = "B.xls" THEN ".xls"
    ELSE IF file = "a.csv" THEN ".csv"
    ELSE IF file = "c.json" THEN ".json"
    ELSE IF file = "d.XLSX" THEN ".xlsx"
    ELSE ".parquet"

C20_NoFiles ==
    /\ Loaded
    /\ call.directory = {".x.csv", "sub"}
    /\ Len(returned.errors) = 1
    /\ returned.errors[1].error_type = "NO_FILES"

\* ------------------------------------------- load_files and the extra columns
\* The raw message names a column of the file that the schema has not.
NamesExtraColumn(raw_message) ==
    \E i \in DOMAIN raw_message : raw_message[i] = "extra column"

\* C21: when a delimited-text file of the source directory has a column
\* absent from the table's schema, load_files returns exactly one LoadError
\* for that file, of kind EXTRA_COLUMNS, whose raw message names the extra
\* column; the table is then tainted.
C21_ExtraColumns ==
    Loaded =>
        \A f \in call.extra_columns :
            /\ ~returned.raises
            /\ Cardinality(ErrorsOf(f)) = 1
            /\ \A k \in ErrorsOf(f) :
                  /\ returned.errors[k].error_type = "EXTRA_COLUMNS"
                  /\ NamesExtraColumn(returned.errors[k].raw_message)
            /\ tainted(returned.errors)

\* What load_files does with such a file: one error of the kind that
\* parse_duckdb_error gives DuckDB's message, and the table is tainted.
C21_ClassifiedByMessage ==
    Loaded =>
        \A f \in call.extra_columns :
            /\ ~returned.raises
            /\ Cardinality(ErrorsOf(f)) = 1
            /\ \A k \in ErrorsOf(f) :
                  returned.errors[k].error_type \in {"COLUMN_MISMATCH", "UNKNOWN"}
            /\ tainted(returned.errors)

\* ------------------------------------------------ the connections of the run
LoadStages == {"create", "load"}

LaterStages == {"table_reports", "relation_checks", "export"}

\* A check, a profiling query, a relation check or an export has started.
LaterStageStarted ==
    \/ table_reports # <<>>
    \/ executed # <<>>
    \/ \E u \in database.used : u.stage \in LaterStages

\* C23: all table creation and all data loading happen on a read-write
\* connection that is closed before the first check, profiling query,
\* relation check or export starts; every later stage uses a read-only
\* connection; no check starts while a load is in progress, and the loaded
\* data does not change after the load phase.
C23_Connections ==
    /\ [](pc \in {"idle"} \/
          /\ \A u \in database.used :
                /\ u.stage \in LoadStages => u.mode = "rw"
                /\ u.stage \in LaterStages => u.mode = "ro"
          /\ LaterStageStarted =>
                /\ database.connection # "rw"
                /\ Len(database.created) = Len(table_defs)
                /\ Len(database.loaded) = Len(table_defs))
    /\ [][LaterStageStarted =>
             /\ database'.created = database.created
             /\ database'.loaded = database.loaded
             /\ database'.connection # "rw"]_vars

\* A finished run with export whose three kinds of connection have all been
\* used: read-write for creating and loading, read-only for the rest.
C23_Witness ==
    /\ pc = "done"
    /\ export
    /\ relations # <<>>
    /\ database.used =
          {[stage |-> "create", mode |-> "rw"], [stage |-> "load", mode |-> "rw"],
           [stage |-> "table_reports", mode |-> "ro"],
           [stage |-> "relation_checks", mode |-> "ro"],
           [stage |-> "export", mode |-> "ro"]}
    /\ database.connection = "closed"

\* ------------------------------------------------- the order of the stages
StageRank(stage) ==
    IF stage \in {"check", "profile"} THEN 1
    ELSE IF stage = "relation" THEN 2
    ELSE 3

RelationChecksStarted ==
    \/ relation_run # NotRun
    \/ \E k \in DOMAIN executed : executed[k].stage = "relation"

ExportStarted ==
    \/ \E k \in DOMAIN executed : executed[k].stage = "export"
    \/ \E i \in DOMAIN table_reports : table_reports[i].export_result # None

\* C24: the stages of a run follow the pipeline order.  Every table is
\* created before any table is loaded; no relation check starts before the
\* checks and profiling of every table have finished and the failed-table
\* set has been derived from all of them; no export starts before every
\* relation check has finished; the report is generated after all of them.
C24_PipelineOrder ==
    /\ database.loaded # <<>> => Len(database.created) = Len(table_defs)
    /\ table_reports # <<>> => Len(database.loaded) = Len(table_defs)
    /\ RelationChecksStarted =>
          /\ Len(table_reports) = Len(table_defs)
          /\ check_failed_tables =
                {table_reports[i].table_def.name :
                    i \in {i \in DOMAIN table_reports :
                              HasNgOrError(table_reports[i])}}
    /\ ExportStarted =>
          /\ relation_run # NotRun
          /\ relation_run.out.state = "returned"
          /\ pc \in {"generate_report", "done"}
    /\ pc = "done" =>
          /\ Len(table_reports) = Len(table_defs)
          /\ relation_run # NotRun
          /\ export => \A i \in DOMAIN table_reports :
                           table_reports[i].export_result # None
    /\ \A j, k \in DOMAIN executed :
          j < k => StageRank(executed[j].stage) <= StageRank(executed[k].stage)

\* A finished run of two tables with a relation and an export: statements of
\* the three later stages were sent, in that order.
C24_Witness ==
    /\ pc = "done"
    /\ Len(table_defs) = 2
    /\ \E j, k, l \in DOMAIN executed :
          /\ j < k /\ k < l
          /\ executed[j].stage = "profile"
          /\ executed[k].stage = "relation"
          /\ executed[l].stage = "export"

\* ------------------------------------------------- the shape of every result
\* The results a call of run_checks, a call of run_relation_checks or a run
\* has produced so far.
ProducedResults ==
    (IF checks_run # <<>> /\ checks_run # NotRun THEN AllResults ELSE <<>>)
    \o (IF relation_run # <<>> /\ relation_run # NotRun
        THEN relation_run.out.results ELSE <<>>)
    \o (IF table_reports = <<>> THEN <<>>
        ELSE table_reports[Len(table_reports)].check_results
             \o table_reports[Len(table_reports)].agg_check_results)

WellFormedResult(r) ==
    /\ r.status \in {"OK", "NG", "SKIPPED", "ERROR"}
    /\ r.status = "OK" => r.message = <<>> /\ r.result_count # None
    /\ r.status = "NG" =>
          /\ r.result_count # None
          /\ r.message = <<"Result count", r.result_count[1]>>
    /\ r.status \in {"SKIPPED", "ERROR"} =>
          r.result_count = None /\ r.message # <<>>

\* C25: every result of run_checks or run_relation_checks has a status among
\* OK, NG, SKIPPED and ERROR; OK comes with an empty message and a result
\* count, NG with a result count and a message reporting it, SKIPPED and
\* ERROR with no result count and a non-empty diagnostic message.
C25_ResultShape ==
    \A k \in DOMAIN ProducedResults : WellFormedResult(ProducedResults[k])

\* A run has produced a result of each of the four statuses: a table's check
\* raised and another passed, and the relation was skipped for it; another
\* table's check counted a row.
C25_Witness ==
    /\ pc = "done"
    /\ \E i, j \in DOMAIN table_reports :
          /\ \E k \in DOMAIN table_reports[i].check_results :
                table_reports[i].check_results[k].status = "ERROR"
          /\ \E k \in DOMAIN table_reports[j].agg_check_results :
                table_reports[j].agg_check_results[k].status = "NG"
    /\ \E k \in DOMAIN relation_run.out.results :
          relation_run.out.results[k].status = "SKIPPED"
    /\ \E i \in DOMAIN table_reports :
          \E k \in DOMAIN table_reports[i].check_results :
              table_reports[i].check_results[k].status = "OK"

\* =========================================================================
\* relation.py: validate_relation_refs, and the run of what it accepts
\* =========================================================================
\* The schemas the relations are validated against: t1 and t2, each with the
\* columns k1 and k2.
table_map == [t \in RelationTables |-> {"k1", "k2"}]

\* The relations a relations.yaml may declare: t9 and k9 are defined nowhere.
DeclaredEndpoint ==
    [table : RelationTables \cup {"t9"}, columns : KeyColumnLists \cup {<<"k9">>}]

DeclaredRelations ==
    [name : {"r"}, cardinality : Cardinalities,
     from_ : DeclaredEndpoint, to : DeclaredEndpoint]

endpoint_undefined(endpoint) ==
    \/ endpoint.table \notin DOMAIN table_map
    \/ \E i \in DOMAIN endpoint.columns :
          endpoint.columns[i] \notin table_map[endpoint.table]

\* validate_relation_refs(relations, table_defs): ValueError for the first
\* endpoint whose table or column is undefined; nothing else is looked at.
validate_relation_refs(rels) ==
    IF \E i \in DOMAIN rels :
          endpoint_undefined(rels[i].from_) \/ endpoint_undefined(rels[i].to)
    THEN [raises |-> TRUE, value |-> "ValueError"]
    ELSE [raises |-> FALSE, value |-> None]

\* -------------------------------------------------- specification: validated
InitValidated ==
    /\ call \in [fn : {"validate_relation_refs"}, rel : DeclaredRelations]
    /\ returned = [stage |-> "declared"]
    /\ EnginesIdle

ValidateRelationRefs ==
    /\ returned.stage = "declared"
    /\ returned' =
          [stage |-> IF validate_relation_refs(<<call.rel>>).raises
                     THEN "rejected" ELSE "validated"]
    /\ UNCHANGED <<call, order_vars, check_vars, relation_vars, run_vars>>

\* run_relation_checks over the validated relation, both tables clean.
RunValidatedRelation ==
    /\ returned.stage = "validated"
    /\ \E db \in RelationDatabases(<<call.rel>>, <<>>, {}) :
          returned' =
              [stage |-> "run",
               out |-> [run_relation_checks(<<call.rel>>, <<>>, {}, db)
                           EXCEPT !.db = <<>>]]
    /\ UNCHANGED <<call, order_vars, check_vars, relation_vars, run_vars>>

NextValidated == ValidateRelationRefs \/ RunValidatedRelation

SpecValidated == InitValidated /\ [][NextValidated]_vars

\* ------------------------------------------ properties of validated relations
ValidationCalled == call # <<>> /\ call.fn = "validate_relation_refs"

SameArity == Len(call.rel.from_.columns) = Len(call.rel.to.columns)

\* C26: every relation that passes relation loading and
\* validate_relation_refs has from and to column lists of the same length;
\* so run_relation_checks never raises while building a validated relation's
\* checks and returns results for every relation.
C26_ValidatedArity ==
    ValidationCalled =>
        /\ returned.stage \in {"validated", "run"} => SameArity
        /\ returned.stage = "run" =>
              /\ returned.out.state = "returned"
              /\ returned.out.results # <<>>

\* What holds: a validated relation names defined tables and columns only,
\* and run_relation_checks returns results for it exactly when its two
\* column lists have the same length.
C26_ForEqualArity ==
    ValidationCalled =>
        /\ returned.stage \in {"validated", "run"} =>
              ~endpoint_undefined(call.rel.from_) /\ ~endpoint_undefined(call.rel.to)
        /\ returned.stage = "run" =>
              IF SameArity
              THEN returned.out.state = "returned" /\ returned.out.results # <<>>
              ELSE returned.out.state = "raised" /\ returned.out.results = <<>>


\* ------------------------------------- the run: skipped relations and export
\* The export block of run() has been passed.
ExportPassed == pc \in {"generate_report", "done"}

SomeRelationSkipped ==
    /\ relation_run # NotRun
    /\ \E i \in DOMAIN relation_check_results :
           relation_check_results[i].status = "SKIPPED"

\* C27: when export is requested and any relation check result is SKIPPED,
\* the export result of every table is SKIPPED once the export block has
\* been passed.
C27_SkippedRelationSkipsExport ==
    (export /\ ExportPassed /\ SomeRelationSkipped)
        => \A i \in DOMAIN table_reports :
               /\ table_reports[i].export_result # None
               /\ table_reports[i].export_result[1].status = "SKIPPED"

\* A finished run with export requested whose relation was skipped, so that
\* relations_ok alone would have let the export run, and whose two tables
\* both have a SKIPPED export result although one of them is valid.
C27_Witness ==
    /\ pc = "done"
    /\ export
    /\ SomeRelationSkipped
    /\ relations_ok
    /\ Len(table_reports) = 2
    /\ \E i \in DOMAIN table_reports : overall_status(table_reports[i]) = "OK"
    /\ \A i \in DOMAIN table_reports :
           /\ table_reports[i].export_result # None
           /\ table_reports[i].export_result[1].status = "SKIPPED"


\* --------------------------------------- the run: the three failure criteria
\* C28: the failure criteria agree.  For every table of a run that has
\* derived the failed-table set: _build_table_reports skipped profiling for
\* a check failure exactly when the table is in check_failed_tables (so a
\* table without load errors was sent profiling statements exactly when it
\* is not in the set); overall_status is NG exactly when the table has load
\* errors or is in check_failed_tables; and a table with load errors is
\* never in check_failed_tables.
C28_FailureCriteriaAgree ==
    Derived =>
        \A i \in DOMAIN table_reports :
            LET report == table_reports[i]
                name == report.table_def.name
            IN  /\ has_check_failure(report.check_results,
                                     report.agg_check_results)
                       <=> name \in check_failed_tables
                /\ report.load_errors = <<>>
                       => (ProfilingStatements(name) = {}
                               <=> name \in check_failed_tables)
                /\ overall_status(report) = "NG"
                       <=> (report.load_errors # <<>>
                                \/ name \in check_failed_tables)
                /\ report.load_errors # <<>> => name \notin check_failed_tables

\* A finished run of two tables: one has load errors, is NG and is not in
\* the failed-table set; the other has no load errors, fails only an
\* aggregation check, was not profiled, is in the set and is NG.
C28_Witness ==
    /\ pc = "done"
    /\ \E i, j \in DOMAIN table_reports :
        /\ table_reports[i].load_errors # <<>>
        /\ overall_status(table_reports[i]) = "NG"
        /\ table_reports[i].table_def.name \notin check_failed_tables
        /\ table_reports[j].load_errors = <<>>
        /\ ~AnyFailed(table_reports[j].check_results)
        /\ AnyFailed(table_reports[j].agg_check_results)
        /\ ProfilingStatements(table_reports[j].table_def.name) = {}
        /\ table_reports[j].table_def.name \in check_failed_tables
        /\ overall_status(table_reports[j]) = "NG"


\* ------------------------------------ the load order: self-referencing tables
\* Some table's foreign key references the table itself.
HasSelfReference == \E e \in FkPairs : e[1] = e[2]

\* C29: a table whose foreign key references the table itself is treated as
\* a cycle: for any input containing a self-referencing foreign key
\* build_load_order fails with the circular-dependency error.
C29_SelfReferenceIsCycle ==
    (Finished /\ HasSelfReference) =>
        /\ order_result.status = "circular_dependency"
        /\ order_result.order = <<>>

\* C29, amended: for any input containing a self-referencing foreign key
\* build_load_order returns no order; it fails with the circular-dependency
\* error when every foreign-key target is defined, and with the
\* missing-reference error when some target is not.
C29_SelfReferenceNeverLoaded ==
    (Finished /\ HasSelfReference) =>
        /\ ~Returned
        /\ order_result.order = <<>>
        /\ AllFkTargetsDefined =>
               /\ order_result.status = "circular_dependency"
               /\ order_result.cycle # <<>>
        /\ ~AllFkTargetsDefined => order_result.status = "missing_reference"

\* A table whose only foreign key references itself, with no other cycle
\* among the tables, has been rejected as the cycle [t, t].
C29_Witness ==
    /\ HasSelfReference
    /\ AllFkTargetsDefined
    /\ Len(table_defs) = 2
    /\ \A e \in FkPairs : e[1] = e[2]
    /\ order_result.status = "circular_dependency"
    /\ Len(order_result.cycle) = 2
    /\ order_result.cycle[1] = order_result.cycle[2]


\* ------------------------- load_files: a directory of unrecognized files only
\* The directory holds a non-hidden file, and no non-hidden file of it has a
\* supported extension or the extension .xls.
OnlyUnrecognizedFiles ==
    /\ VisibleFiles # {}
    /\ \A f \in VisibleFiles :
           Extension(f) \notin {".xls", ".csv", ".xlsx", ".parquet"}

\* The read-only database in which every query of the table answers alike.
UniformDatabases(td) ==
    {[q \in QuerySet(td) |-> o] : o \in QueryOutcomes}

\* C30: for a source directory holding at least one non-hidden file, none of
\* them of a supported extension or .xls, load_files returns the empty error
\* list without attempting an insert (the table stays empty); the table is
\* therefore not tainted, and run_checks, given these load errors, executes
\* every check of the table and skips none.
C30_UnrecognizedFilesOnly ==
    (Loaded /\ OnlyUnrecognizedFiles) =>
        /\ ~returned.raises
        /\ returned.errors = <<>>
        /\ returned.attempts = <<>>
        /\ ~tainted(returned.errors)
        /\ \A td \in CheckTables : \A db \in UniformDatabases(td) :
               LET out == run_checks(td, returned.errors, db)
               IN  /\ Len(out.executed) = Len(check_queries(td))
                   /\ Len(out.check_results) = Len(executed_checks(td))
                   /\ Len(out.agg_check_results) = Len(td.aggregation_checks)
                   /\ \A i \in DOMAIN out.check_results :
                          out.check_results[i].status # "SKIPPED"
                   /\ \A i \in DOMAIN out.agg_check_results :
                          out.agg_check_results[i].status # "SKIPPED"

\* A directory holding a .json file beside a hidden file and a subdirectory:
\* the .json file was visited, nothing was inserted, no error was returned.
C30_Witness ==
    /\ Loaded
    /\ call.directory = {".x.csv", "c.json", "sub"}
    /\ returned.visited = <<"c.json">>
    /\ returned.attempts = <<>>
    /\ returned.errors = <<>>

====
